---- MODULE Spec2Model ----
(***************************************************************************)
(* Model of the replication engine of the collaborative-document service:  *)
(* backend/distributed/server.py (DistributedServer) driving the state     *)
(* machine of backend/interactor/business_logic.py.                        *)
(*                                                                         *)
(* Every block that the source runs under self.lock is one action.  Code   *)
(* that runs outside the lock (the accepting branch of the submit methods)  *)
(* is split where it takes the lock and where its wait ends.  Wall-clock   *)
(* time is abstracted: a timer may fire whenever its guard on the role     *)
(* holds, an outstanding RPC may fail (time out) at any moment, and a      *)
(* cooldown may expire at any moment.  The retry counter of an RPC sender  *)
(* is abstracted: a failed attempt is either followed by another attempt   *)
(* or is the last one.                                                     *)
(*                                                                         *)
(* The state machine itself is modelled a second time with all its fields: *)
(* backend/database/db_interface.py (the JSON file of users and documents) *)
(* under the methods of BusinessLogic, applied command by command on two   *)
(* replicas (SpecStore, and SpecAccounts for the commands on the user     *)
(* records), and the character-level three-way merge of BusinessLogic on   *)
(* texts (SpecMerge).  SpecOutage holds the elections of a node that has   *)
(* marked its peer as down, SpecRecount the elections of one node of four, *)
(* SpecApplyLoop the runs of Spec in which the apply loops keep running,   *)
(* and SpecRace two threads of one node inside BusinessLogic methods, one  *)
(* step per call of DatabaseInterface.                                     *)
(***************************************************************************)
EXTENDS Integers, Sequences, FiniteSets, Bags, TLC

\* ---------------------------------------------------------------- bounds
\* Each bounds how often the environment may do one thing in a run.
MaxElections == 2    \* election timeouts that fire, over all nodes
MaxOutageElections == 3  \* the same in the runs in which a node loses its peer
MaxHeartbeats == 1   \* rounds of the heartbeat loops, over all nodes
MaxFailures == 1     \* RPC attempts that raise, over all senders
MaxStops == 1        \* calls of stop()
MaxSubmits == 2      \* calls of a submit method
MaxCommands == 5     \* commands that the replicas apply to their Stores
MaxRefused == 1      \* of these, commands that every replica refuses
MaxLen == 3          \* characters of a text handed to the merge

\* ------------------------------------------------------------- constants
FOLLOWER == "follower"
CANDIDATE == "candidate"
LEADER == "leader"

\* None of the source.
Nil == "none"

\* The replicas the launcher can start (--count, three by default; up to
\* four are looked at).
Server == {"s1", "s2", "s3", "s4"}

\* The usernames the clients use.
Username == {"alice"}

\* The command dictionaries built by register_user / create_document.
Command == {[operation |-> op, username |-> u] :
              op \in {"register_user", "create_document"}, u \in Username}

VARIABLES
    peer_addresses,  \* self.peer_addresses, as the set of peer servers
    lifecycle,       \* "new" before start(), "running", "stopped" after stop()
    state,           \* self.state
    current_term,    \* self.current_term
    voted_for,       \* self.voted_for
    leader_id,       \* self.leader_id
    votes_received,  \* self.votes_received
    log,             \* self.log, a sequence of LogEntry
    commit_index,    \* self.commit_index
    last_applied,    \* self.last_applied
    next_index,      \* self.next_index
    match_index,     \* self.match_index
    peer_down,       \* peer_down_<addr> > time.time(), per peer
    store,           \* the Store behind self.business_logic
    threads,         \* bag of the RPC sender threads and their calls in flight
    calls,           \* bag of the submit calls that are past the leader check
    last_result,     \* what the submit call that returned last has returned
    elected,         \* history: every entry into the leader state
    exec_count,      \* history: executions of each log index's command
    apply_seq,       \* history: indices handed over by the apply loop
    granted,         \* history: the vote that each node has given last
    budget,          \* history: how often each bounded event has happened
    db,              \* per replica: the JSON file behind DatabaseInterface
    last_command,    \* the command dictionary that was applied last
    returned,        \* per replica: what the business-logic method returned
    applied,         \* history: how many commands have been applied
    refused,         \* history: how many of them every replica has refused
    first_password,  \* history: per replica, the password each user registered
    method_call,     \* per thread of one node: its business-logic call under way
    merge_args,      \* base, current and new content of one three-way merge
    merge_ret        \* what the merge has returned for merge_args

vars == <<peer_addresses, lifecycle, state, current_term, voted_for, leader_id,
          votes_received, log, commit_index, last_applied, next_index,
          match_index, peer_down, store, threads, calls, last_result,
          elected, exec_count, apply_seq, granted, budget, db, last_command,
          returned,
          applied, refused, first_password, method_call,
          merge_args, merge_ret>>

role_vars == <<state, current_term, voted_for>>
consensus_vars == <<role_vars, leader_id, votes_received, next_index,
                    match_index>>
client_vars == <<calls, last_result>>
log_vars == <<log, commit_index, last_applied>>
hist_vars == <<elected, exec_count, apply_seq, granted>>
store_vars == <<db, last_command, returned, applied, refused, first_password,
                method_call>>
merge_vars == <<merge_args, merge_ret>>
business_vars == <<store_vars, merge_vars>>

\* ------------------------------------------- the business logic at rest
\* The nodes whose Stores are compared when they apply the same commands.
Replica == {"r1", "r2"}

\* An Optional[...] of the source: None, or a value.
None == <<>>
Some(x) == <<x>>

\* DatabaseInterface._ensure_db_exists: {"users": {}, "documents": {}}
FreshDb == [users |-> [u \in {} |-> u], documents |-> [d \in {} |-> d]]

\* The threads of a node that call BusinessLogic methods: the apply loop
\* (through _apply_command) and the caller of a submit method.
Task == {"apply_loop", "caller"}

\* The locals of a method call: where the call stands, its arguments, and
\* the User and Document objects it has read from the database.
Op(pc, username, document_id, user, document) ==
    [pc |-> pc, username |-> username, document_id |-> document_id,
     user |-> user, document |-> document]

\* No call under way.
IdleOp == Op("idle", Nil, Nil, None, None)

\* No command has been applied and no merge has been asked for.
IdleStore ==
    /\ db = [r \in Replica |-> FreshDb]
    /\ last_command = [operation |-> Nil]
    /\ returned = [r \in Replica |->
                      [success |-> FALSE, message |-> "", value |-> None]]
    /\ applied = 0
    /\ refused = 0
    /\ first_password = [r \in Replica |-> [u \in {} |-> u]]
    /\ method_call = [k \in Task |-> IdleOp]

IdleMerge ==
    /\ merge_args = [base |-> <<>>, current |-> <<>>, new |-> <<>>]
    /\ merge_ret = [done |-> FALSE, merged |-> <<>>, intermediate |-> <<>>]

running(s) == lifecycle[s] = "running"

\* ------------------------------------------------------------ LogEntry
\* Variant of LogEntry that numbers the entries from 1; C34 is sensitive to
\* the difference.
OneBasedEntry(term, index, command) ==
    [term |-> term, index |-> index + 1, command |-> command]

LogEntry(term, index, command) ==
    [term |-> term, index |-> index, command |-> command]

\* len(self.log) - 1
last_log_index(s) == Len(log[s]) - 1

\* self.log[last_log_index].term if last_log_index >= 0 else 0
last_log_term(s) ==
    IF last_log_index(s) >= 0 THEN log[s][last_log_index(s) + 1].term ELSE 0

\* ------------------------------------------------------- state machine
EmptyStore == [users |-> {}, docs |-> 0]

\* BusinessLogic.register_user: fails when the username exists.
bl_register_user(st, u) ==
    IF u \in st.users
    THEN [ok |-> FALSE, store |-> st]
    ELSE [ok |-> TRUE, store |-> [st EXCEPT !.users = @ \cup {u}]]

\* BusinessLogic.create_document: fails for an unknown user, otherwise
\* stores one more document under a freshly minted id.
bl_create_document(st, u) ==
    IF u \notin st.users
    THEN [ok |-> FALSE, store |-> st]
    ELSE [ok |-> TRUE, store |-> [st EXCEPT !.docs = @ + 1]]

\* The business-logic call selected by the operation of a command.
bl_call(st, cmd) ==
    IF cmd.operation = "register_user"
    THEN bl_register_user(st, cmd.username)
    ELSE bl_create_document(st, cmd.username)

\* DistributedServer._apply_command: the result is dropped.
_apply_command(st, cmd) == bl_call(st, cmd).store

\* --------------------------------------------------------- RPC threads
\* One record per sender thread.  pc = "send": about to build a request;
\* "sent": request on its way to dst; "replied": response on its way back.
Thread(type, src, dst, pc, term, lli, llt, cidx, entries, ok) ==
    [type |-> type, src |-> src, dst |-> dst, pc |-> pc, term |-> term,
     lli |-> lli, llt |-> llt, cidx |-> cidx, entries |-> entries, ok |-> ok]

FreshThread(type, src, dst) ==
    Thread(type, src, dst, "send", 0, 0, 0, 0, <<>>, FALSE)

Spawn(B, S) == B (+) SetToBag(S)
Drop(B, t) == B (-) SetToBag({t})
Replace(B, t, u) == (B (-) SetToBag({t})) (+) SetToBag({u})
\* A vote for candidate, given by a node while its current_term is term.
Vote(term, candidate) == [term |-> term, candidate |-> candidate]

\* ---------------------------------------------------------------- Init
\* The deployments: four, three and two replicas, a single replica.
Four == [s \in Server |-> Server \ {s}]
Three == [s \in Server |->
             IF s \in {"s1", "s2", "s3"} THEN {"s1", "s2", "s3"} \ {s} ELSE {}]
Pair == [s \in Server |-> IF s \in {"s1", "s2"} THEN {"s1", "s2"} \ {s} ELSE {}]
Singleton == [s \in Server |-> {}]

\* The replicas that exist in the deployment.
Members == {s \in Server : peer_addresses[s] # {}} \cup {"s1"}

\* DistributedServer.__init__ on every replica of deployment cfg.
InitOf(cfg) ==
    /\ peer_addresses = cfg
    /\ lifecycle = [s \in Server |-> "new"]
    /\ state = [s \in Server |-> FOLLOWER]
    /\ current_term = [s \in Server |-> 0]
    /\ voted_for = [s \in Server |-> Nil]
    /\ leader_id = [s \in Server |-> Nil]
    /\ votes_received = [s \in Server |-> 0]
    /\ log = [s \in Server |-> <<>>]
    /\ commit_index = [s \in Server |-> -1]
    /\ last_applied = [s \in Server |-> -1]
    /\ next_index = [s \in Server |-> [p \in Server |-> 0]]
    /\ match_index = [s \in Server |-> [p \in Server |-> -1]]
    /\ peer_down = [s \in Server |-> [p \in Server |-> FALSE]]
    /\ store = [s \in Server |-> EmptyStore]
    /\ threads = EmptyBag
    /\ calls = EmptyBag
    /\ last_result = [node |-> Nil, operation |-> Nil, success |-> FALSE,
                      kind |-> Nil, leader |-> Nil]
    /\ elected = {}
    /\ exec_count = [s \in Server |-> [i \in 0..(MaxSubmits - 1) |-> 0]]
    /\ apply_seq = [s \in Server |-> <<>>]
    /\ granted = [s \in Server |-> Vote(-1, Nil)]
    /\ budget = [elections |-> 0, heartbeats |-> 0, failures |-> 0,
                 stops |-> 0, submits |-> 0]

Init == (InitOf(Pair) \/ InitOf(Singleton)) /\ IdleStore /\ IdleMerge

\* ------------------------------------------------------ role changes
\* The fields of a node that the vote and heartbeat handlers rewrite.
Role(s) == [state |-> state[s], current_term |-> current_term[s],
            voted_for |-> voted_for[s]]

SetRole(s, r) ==
    /\ state' = [state EXCEPT ![s] = r.state]
    /\ current_term' = [current_term EXCEPT ![s] = r.current_term]
    /\ voted_for' = [voted_for EXCEPT ![s] = r.voted_for]

\* Variant of the stale-term test that never rejects; C13 is sensitive to the
\* difference.
NeverStale(s, term) == FALSE

\* Variant of the stale-term test that rejects the own term too; C14 is
\* sensitive to the difference.
StaleOrOwnTerm(s, term) == term <= current_term[s]

\* request.term < self.current_term, the first test of both RPC handlers
StaleTerm(s, term) == term < current_term[s]

\* Variant of the term comparison that lets any other term through, an older
\* one included; C8 is sensitive to the difference.
OtherTerm(s, term) == term # current_term[s]

\* response.term > self.current_term / request.term > self.current_term
HigherTerm(s, term) == term > current_term[s]

\* votes_received > (len(self.peer_addresses) + 1) / 2, a true division
Majority(s, count) == 2 * count > Cardinality(peer_addresses[s]) + 1

\* Variant of the follower transition that keeps the vote; C11 is sensitive
\* to the difference.
BecomeFollowerKeepingVote(s, term) ==
    [state |-> FOLLOWER, current_term |-> term, voted_for |-> voted_for[s]]

\* DistributedServer._become_follower
_become_follower(s, term) ==
    [state |-> FOLLOWER, current_term |-> term, voted_for |-> Nil]

\* DistributedServer._become_leader: the fields it assigns.
_become_leader(s, via) ==
    /\ state' = [state EXCEPT ![s] = LEADER]
    /\ leader_id' = [leader_id EXCEPT ![s] = s]
    /\ next_index' = [next_index EXCEPT ![s] =
           [p \in Server |-> IF p \in peer_addresses[s] THEN Len(log[s]) ELSE @[p]]]
    /\ match_index' = [match_index EXCEPT ![s] =
           [p \in Server |-> IF p \in peer_addresses[s] THEN -1 ELSE @[p]]]
    /\ elected' = elected \cup {[term |-> current_term'[s], node |-> s, via |-> via]}

\* Variant of the log comparison that wants a strictly longer log when the
\* last terms are equal; C12 is sensitive to the difference.
LogStrictlyLonger(s, req_last_log_index, req_last_log_term) ==
    IF req_last_log_term # last_log_term(s)
    THEN req_last_log_term > last_log_term(s)
    ELSE req_last_log_index > last_log_index(s)

\* DistributedServer._is_log_up_to_date
_is_log_up_to_date(s, req_last_log_index, req_last_log_term) ==
    IF req_last_log_term # last_log_term(s)
    THEN req_last_log_term > last_log_term(s)
    ELSE req_last_log_index >= last_log_index(s)

\* DistributedServer.RequestVote on node s for the request of src: the role
\* fields it leaves and the vote it returns (with term = role.current_term).
RequestVote(s, src, term, lli, llt) ==
    IF StaleTerm(s, term)
    THEN [role |-> Role(s), vote_granted |-> FALSE]
    ELSE LET r == IF HigherTerm(s, term) THEN _become_follower(s, term)
                  ELSE Role(s)
             grant == /\ (r.voted_for = Nil \/ r.voted_for = src)
                      /\ _is_log_up_to_date(s, lli, llt)
         IN [role |-> [r EXCEPT !.voted_for = IF grant THEN src ELSE @],
             vote_granted |-> grant]

\* ------------------------------------------------------- start / stop
\* DistributedServer.start.  _check_peer_connectivity pings every peer with
\* a VoteRequest of term 0 and last log index 0; the peers in reached are up
\* and run their RequestVote handler on it, the answer is not looked at.
Start(s) ==
    /\ s \in Members
    /\ lifecycle[s] = "new"
    /\ lifecycle' = [lifecycle EXCEPT ![s] = "running"]
    /\ next_index' = [next_index EXCEPT ![s] =
           [p \in Server |-> IF p \in peer_addresses[s] THEN 0 ELSE @[p]]]
    /\ match_index' = [match_index EXCEPT ![s] =
           [p \in Server |-> IF p \in peer_addresses[s] THEN -1 ELSE @[p]]]
    /\ \E reached \in SUBSET {p \in peer_addresses[s] : running(p)} :
          LET after(p) == IF p \in reached
                          THEN RequestVote(p, s, 0, 0, 0).role ELSE Role(p)
          IN /\ state' = [p \in Server |-> after(p).state]
             /\ current_term' = [p \in Server |-> after(p).current_term]
             /\ voted_for' = [p \in Server |-> after(p).voted_for]
             /\ granted' = [p \in Server |->
                    IF p \in reached /\ RequestVote(p, s, 0, 0, 0).vote_granted
                    THEN Vote(after(p).current_term, s) ELSE granted[p]]
    /\ UNCHANGED <<peer_addresses, leader_id, votes_received, log_vars,
                   peer_down, store, threads, client_vars, elected, exec_count,
                   apply_seq, budget, business_vars>>

\* DistributedServer.stop
Stop(s) ==
    /\ budget.stops < MaxStops
    /\ budget' = [budget EXCEPT !.stops = @ + 1]
    /\ running(s)
    /\ lifecycle' = [lifecycle EXCEPT ![s] = "stopped"]
    /\ UNCHANGED <<peer_addresses, consensus_vars, log_vars, peer_down, store,
                   threads, client_vars, hist_vars,
                   business_vars>>

\* ------------------------------------------------------------ election
\* Variant of ActivePeers that does not look at the cooldowns; C27 is
\* sensitive to the difference.
AllPeers(s) == peer_addresses[s]

\* The peers whose cooldown has expired (peer_down_until <= time.time()).
ActivePeers(s) == {p \in peer_addresses[s] : ~peer_down[s][p]}

VoteThreads(s) == {FreshThread("vote", s, p) : p \in ActivePeers(s)}

\* Variant of _start_election that leaves voted_for as it is; C25 is
\* sensitive to the difference.
StartElectionKeepingVote(s) ==
    /\ current_term' = [current_term EXCEPT ![s] = @ + 1]
    /\ votes_received' = [votes_received EXCEPT ![s] = 1]
    /\ state' = [state EXCEPT ![s] = CANDIDATE]
    /\ threads' = Spawn(threads, VoteThreads(s))
    /\ UNCHANGED <<voted_for, leader_id, next_index, match_index, elected>>
    /\ granted' = [granted EXCEPT ![s] = Vote(current_term'[s], s)]
    /\ UNCHANGED <<peer_addresses, lifecycle, log_vars, peer_down, store,
                   client_vars, exec_count, apply_seq,
                   business_vars>>

\* DistributedServer._start_election
_start_election(s) ==
    /\ current_term' = [current_term EXCEPT ![s] = @ + 1]
    /\ voted_for' = [voted_for EXCEPT ![s] = s]
    /\ votes_received' = [votes_received EXCEPT ![s] = 1]
    /\ IF ActivePeers(s) = {} /\ peer_addresses[s] # {}
       THEN /\ _become_leader(s, "shortcut")
            /\ UNCHANGED threads
       ELSE /\ state' = [state EXCEPT ![s] = CANDIDATE]
            /\ threads' = Spawn(threads, VoteThreads(s))
            /\ UNCHANGED <<leader_id, next_index, match_index, elected>>
    /\ granted' = [granted EXCEPT ![s] = Vote(current_term'[s], s)]
    /\ UNCHANGED <<peer_addresses, lifecycle, log_vars, peer_down, store,
                   client_vars, exec_count, apply_seq,
                   business_vars>>

\* DistributedServer._run_election_timer firing DistributedServer._start_election
ElectionTimeout(s) ==
    /\ budget.elections < MaxElections
    /\ budget' = [budget EXCEPT !.elections = @ + 1]
    /\ running(s)
    /\ state[s] # LEADER
    /\ _start_election(s)

\* The same timer in the runs in which a node loses its peer, where it
\* fires more often.
ElectionTimeoutInOutage(s) ==
    /\ budget.elections < MaxOutageElections
    /\ budget' = [budget EXCEPT !.elections = @ + 1]
    /\ running(s)
    /\ state[s] # LEADER
    /\ _start_election(s)

\* DistributedServer._request_vote, first locked block: build the request.
VoteSend(t) ==
    /\ t.type = "vote" /\ t.pc = "send"
    /\ threads' = IF state[t.src] # CANDIDATE
                  THEN Drop(threads, t)
                  ELSE Replace(threads, t,
                         Thread("vote", t.src, t.dst, "sent", current_term[t.src],
                                last_log_index(t.src), last_log_term(t.src),
                                0, <<>>, FALSE))
    /\ UNCHANGED <<peer_addresses, lifecycle, consensus_vars, log_vars,
                   peer_down, store, client_vars, hist_vars, budget,
                   business_vars>>

\* The response on its way back to the sender thread.
Reply(t, term, ok) ==
    Replace(threads, t,
            Thread(t.type, t.src, t.dst, "replied", term, 0, 0, 0, t.entries, ok))

\* The RequestVote handler runs on the receiving node.
HandleRequestVote(t) ==
    LET s == t.dst
        r == RequestVote(s, t.src, t.term, t.lli, t.llt)
    IN
    /\ t.type = "vote" /\ t.pc = "sent"
    /\ running(s)
    /\ SetRole(s, r.role)
    /\ threads' = Reply(t, r.role.current_term, r.vote_granted)
    /\ granted' = IF r.vote_granted
                  THEN [granted EXCEPT ![s] = Vote(r.role.current_term, t.src)]
                  ELSE granted
    /\ UNCHANGED <<peer_addresses, lifecycle, leader_id, votes_received,
                   next_index, match_index, log_vars, peer_down, store,
                   client_vars, elected, exec_count, apply_seq, budget,
                   business_vars>>

\* DistributedServer._request_vote, second locked block: count the vote.
VoteResponse(t) ==
    LET s == t.src IN
    /\ t.type = "vote" /\ t.pc = "replied"
    /\ threads' = Drop(threads, t)
    /\ IF state[s] # CANDIDATE
       THEN UNCHANGED <<consensus_vars, elected>>
       ELSE IF HigherTerm(s, t.term)
       THEN /\ SetRole(s, _become_follower(s, t.term))
            /\ UNCHANGED <<leader_id, votes_received, next_index, match_index,
                           elected>>
       ELSE IF t.ok
       THEN /\ votes_received' = [votes_received EXCEPT ![s] = @ + 1]
            /\ UNCHANGED <<current_term, voted_for>>
            /\ IF Majority(s, votes_received'[s])
               THEN _become_leader(s, "votes")
               ELSE UNCHANGED <<state, leader_id, next_index, match_index,
                                elected>>
       ELSE UNCHANGED <<consensus_vars, elected>>
    /\ UNCHANGED <<peer_addresses, lifecycle, log_vars, peer_down, store,
                   client_vars, exec_count, apply_seq, granted, budget,
                   business_vars>>

\* An attempt of an RPC sender raises (connection refused, or the 5 s
\* timeout) and another attempt follows: the except branch of
\* _request_vote / _send_append_entries with attempt < max_retries - 1.
RpcRetry(t) ==
    /\ budget.failures < MaxFailures
    /\ budget' = [budget EXCEPT !.failures = @ + 1]
    /\ t.pc \in {"sent", "replied"}
    /\ threads' = Replace(threads, t, FreshThread(t.type, t.src, t.dst))
    /\ UNCHANGED <<peer_addresses, lifecycle, consensus_vars, log_vars,
                   peer_down, store, client_vars, hist_vars,
                   business_vars>>

\* The last attempt of a vote request raises: the peer is marked down and,
\* if every other peer is down too, a candidate makes itself leader.
VoteGiveUp(t) ==
    LET s == t.src IN
    /\ budget.failures < MaxFailures
    /\ budget' = [budget EXCEPT !.failures = @ + 1]
    /\ t.type = "vote" /\ t.pc \in {"sent", "replied"}
    /\ threads' = Drop(threads, t)
    /\ peer_down' = [peer_down EXCEPT ![s][t.dst] = TRUE]
    /\ UNCHANGED <<current_term, voted_for, votes_received>>
    /\ IF /\ \A p \in peer_addresses[s] \ {t.dst} : peer_down[s][p]
          /\ state[s] = CANDIDATE
       THEN _become_leader(s, "shortcut")
       ELSE UNCHANGED <<state, leader_id, next_index, match_index, elected>>
    /\ UNCHANGED <<peer_addresses, lifecycle, log_vars, store, client_vars,
                   exec_count, apply_seq, granted,
                   business_vars>>

\* The 30 s cooldown of a peer runs out.
PeerDownExpire(s, p) ==
    /\ peer_down[s][p]
    /\ peer_down' = [peer_down EXCEPT ![s][p] = FALSE]
    /\ UNCHANGED <<peer_addresses, lifecycle, consensus_vars, log_vars, store,
                   threads, client_vars, hist_vars, budget,
                   business_vars>>

\* ------------------------------------------------ heartbeat / append
\* The sender threads started for the peers of s; a thread whose peer is in
\* its cooldown returns at once (first lines of _send_append_entries).
AppendThreads(s) == {FreshThread("append", s, p) : p \in ActivePeers(s)}

\* One round of DistributedServer._send_heartbeats.
Heartbeat(s) ==
    /\ budget.heartbeats < MaxHeartbeats
    /\ budget' = [budget EXCEPT !.heartbeats = @ + 1]
    /\ running(s)
    /\ state[s] = LEADER
    /\ AppendThreads(s) # {}
    /\ threads' = Spawn(threads, AppendThreads(s))
    /\ UNCHANGED <<peer_addresses, lifecycle, consensus_vars, log_vars,
                   peer_down, store, client_vars, hist_vars,
                   business_vars>>

\* self.log[next_idx:]
EntriesFrom(s, next_idx) ==
    IF next_idx < Len(log[s]) THEN SubSeq(log[s], next_idx + 1, Len(log[s]))
    ELSE <<>>

\* DistributedServer._send_append_entries, first locked block.
AppendSend(t) ==
    /\ t.type = "append" /\ t.pc = "send"
    /\ threads' = IF state[t.src] # LEADER
                  THEN Drop(threads, t)
                  ELSE Replace(threads, t,
                         Thread("append", t.src, t.dst, "sent",
                                current_term[t.src], 0, 0, commit_index[t.src],
                                EntriesFrom(t.src, next_index[t.src][t.dst]),
                                FALSE))
    /\ UNCHANGED <<peer_addresses, lifecycle, consensus_vars, log_vars,
                   peer_down, store, client_vars, hist_vars, budget,
                   business_vars>>

\* Variant of the follower's commit rule that takes the leader's commit index
\* as it is, without the cap at the own log; C7 is sensitive to the cap.
FollowerCommitUncapped(s, leader_commit) ==
    IF leader_commit > commit_index[s] THEN leader_commit ELSE commit_index[s]

\* SendHeartbeat: min(request.commit_index, len(self.log) - 1), taken when
\* the leader's commit index is ahead of the receiver's.
FollowerCommit(s, leader_commit) ==
    IF leader_commit > commit_index[s]
    THEN IF leader_commit < Len(log[s]) - 1 THEN leader_commit
         ELSE Len(log[s]) - 1
    ELSE commit_index[s]

\* DistributedServer.SendHeartbeat, the handler on the receiving node.  The
\* entries of the request are not stored (the TODO of the source).
HandleSendHeartbeat(t) ==
    LET s == t.dst IN
    /\ t.type = "append" /\ t.pc = "sent"
    /\ running(s)
    /\ IF StaleTerm(s, t.term)
       THEN /\ threads' = Reply(t, current_term[s], FALSE)
            /\ UNCHANGED <<role_vars, leader_id, commit_index>>
       ELSE /\ SetRole(s, _become_follower(s, t.term))
            /\ leader_id' = [leader_id EXCEPT ![s] = t.src]
            /\ commit_index' = [commit_index EXCEPT ![s] =
                                   FollowerCommit(s, t.cidx)]
            /\ threads' = Reply(t, t.term, TRUE)
    /\ UNCHANGED <<peer_addresses, lifecycle, votes_received, next_index,
                   match_index, log, last_applied, peer_down, store,
                   client_vars, hist_vars, budget,
                   business_vars>>

\* The smallest of a non-empty set of indices.
MinOf(S) == CHOOSE n \in S : \A m \in S : n <= m

\* Variant of _update_commit_index that takes the smallest match_index as
\* it is, without looking at the present commit_index; C40 is sensitive to
\* the difference.
CommitToMatchIndex(s, mi) ==
    IF state[s] = LEADER /\ peer_addresses[s] # {}
    THEN MinOf({mi[p] : p \in peer_addresses[s]}) ELSE commit_index[s]

\* DistributedServer._update_commit_index, with mi the match_index the
\* caller has just written: the first n above commit_index whose entry is of
\* the current term and is matched on a majority.
_update_commit_index(s, mi) ==
    LET ok == {n \in (commit_index[s] + 1)..(Len(log[s]) - 1) :
                 /\ log[s][n + 1].term = current_term[s]
                 /\ Majority(s, 1 + Cardinality(
                        {p \in peer_addresses[s] : mi[p] >= n}))}
    IN IF state[s] = LEADER /\ ok # {} THEN MinOf(ok) ELSE commit_index[s]

\* DistributedServer._send_append_entries, second locked block.
AppendResponse(t) ==
    LET s == t.src
        p == t.dst
        last == t.entries[Len(t.entries)].index
    IN
    /\ t.type = "append" /\ t.pc = "replied"
    /\ threads' = Drop(threads, t)
    /\ IF state[s] # LEADER
       THEN UNCHANGED <<consensus_vars, commit_index, peer_down>>
       ELSE IF HigherTerm(s, t.term)
       THEN /\ SetRole(s, _become_follower(s, t.term))
            /\ UNCHANGED <<leader_id, votes_received, next_index, match_index,
                           commit_index, peer_down>>
       ELSE IF t.ok
       THEN /\ next_index' = IF t.entries # <<>>
                             THEN [next_index EXCEPT ![s][p] = last + 1]
                             ELSE next_index
            /\ match_index' = IF t.entries # <<>>
                              THEN [match_index EXCEPT ![s][p] = last]
                              ELSE match_index
            /\ commit_index' = [commit_index EXCEPT ![s] =
                                   _update_commit_index(s, match_index'[s])]
            /\ peer_down' = [peer_down EXCEPT ![s][p] = FALSE]
            /\ UNCHANGED <<role_vars, leader_id, votes_received>>
       ELSE /\ next_index' = [next_index EXCEPT ![s][p] =
                                 IF @ - 1 > 0 THEN @ - 1 ELSE 0]
            /\ UNCHANGED <<role_vars, leader_id, votes_received, match_index,
                           commit_index, peer_down>>
    /\ UNCHANGED <<peer_addresses, lifecycle, log, last_applied, store,
                   client_vars, hist_vars, budget,
                   business_vars>>

\* The last attempt of an append-entries sender raises: the peer is marked
\* down for the cooldown period.
AppendGiveUp(t) ==
    /\ budget.failures < MaxFailures
    /\ budget' = [budget EXCEPT !.failures = @ + 1]
    /\ t.type = "append" /\ t.pc \in {"sent", "replied"}
    /\ threads' = Drop(threads, t)
    /\ peer_down' = [peer_down EXCEPT ![t.src][t.dst] = TRUE]
    /\ UNCHANGED <<peer_addresses, lifecycle, consensus_vars, log_vars, store,
                   client_vars, hist_vars,
                   business_vars>>

\* ------------------------------------------------------------ apply loop
\* Variant of the apply loop's step that jumps to the commit index; C5 is
\* sensitive to the difference.
JumpToCommit(s) == commit_index[s]

\* self.last_applied += 1
NextToApply(s) == last_applied[s] + 1

\* One round of DistributedServer._apply_committed_entries that finds work.
Apply(s) ==
    /\ running(s)
    /\ commit_index[s] > last_applied[s]
    /\ last_applied' = [last_applied EXCEPT ![s] = NextToApply(s)]
    /\ store' = [store EXCEPT ![s] =
                    _apply_command(@, log[s][last_applied'[s] + 1].command)]
    /\ exec_count' = [exec_count EXCEPT ![s][last_applied'[s]] = @ + 1]
    /\ apply_seq' = [apply_seq EXCEPT ![s] = Append(@, last_applied'[s])]
    /\ UNCHANGED <<peer_addresses, lifecycle, consensus_vars, log, commit_index,
                   peer_down, threads, client_vars, elected, granted, budget,
                   business_vars>>

\* --------------------------------------------------------- write path
\* The submit methods (register_user, create_document, ...) share one body;
\* it runs on the caller's thread and takes the lock only inside
\* _append_log_entry.

\* A submit call that has passed `if self.state == LEADER:`.
Call(s, pc, cmd, index) == [node |-> s, pc |-> pc, cmd |-> cmd, index |-> index]

\* What a submit method returns: the success flag, which of its three return
\* statements was taken, and the leader the message names; the node and the
\* operation of the call are recorded with it.
Result(s, cmd, success, kind, leader) ==
    [node |-> s, operation |-> cmd.operation, success |-> success,
     kind |-> kind, leader |-> leader]

\* Variant of the leader check that a candidate passes too; C10 is sensitive
\* to the difference.
NotFollower(s) == state[s] # FOLLOWER

\* `if self.state == LEADER:` at the head of every submit method
IsLeader(s) == state[s] = LEADER

\* A submit method is called on a node in leader state.
SubmitAccept(s, cmd) ==
    /\ budget.submits < MaxSubmits
    /\ budget' = [budget EXCEPT !.submits = @ + 1]
    /\ IsLeader(s)
    /\ calls' = calls (+) SetToBag({Call(s, "append", cmd, -1)})
    /\ UNCHANGED <<peer_addresses, lifecycle, consensus_vars, log_vars,
                   peer_down, store, threads, last_result, hist_vars,
                   business_vars>>

\* A submit method is called on a node that is not in leader state: the
\* elif / else branches, which name self.leader_id when it is set.
SubmitReject(s, cmd) ==
    /\ budget.submits < MaxSubmits
    /\ budget' = [budget EXCEPT !.submits = @ + 1]
    /\ ~IsLeader(s)
    /\ last_result' = IF leader_id[s] # Nil
                      THEN Result(s, cmd, FALSE, "not_leader", leader_id[s])
                      ELSE Result(s, cmd, FALSE, "no_leader", Nil)
    /\ UNCHANGED <<peer_addresses, lifecycle, consensus_vars, log_vars,
                   peer_down, store, threads, calls, hist_vars,
                   business_vars>>

\* DistributedServer._append_log_entry
_append_log_entry(c) ==
    LET s == c.node
        entry == LogEntry(current_term[s], Len(log[s]), c.cmd)
    IN
    /\ c.pc = "append"
    /\ log' = [log EXCEPT ![s] = Append(@, entry)]
    /\ threads' = IF state[s] = LEADER
                  THEN Spawn(threads, AppendThreads(s)) ELSE threads
    /\ commit_index' = IF state[s] = LEADER /\ peer_addresses[s] = {}
                       THEN [commit_index EXCEPT ![s] = entry.index]
                       ELSE commit_index
    /\ calls' = (calls (-) SetToBag({c}))
                   (+) SetToBag({Call(s, "wait", c.cmd, entry.index)})
    /\ UNCHANGED <<peer_addresses, lifecycle, consensus_vars, last_applied,
                   peer_down, store, last_result, hist_vars, budget,
                   business_vars>>

\* `while self.commit_index < index and self.running` has ended, and the
\* caller runs the business-logic method itself to get the return value.
SubmitExecute(c) ==
    LET s == c.node
        r == bl_call(store[s], c.cmd)
    IN
    /\ c.pc = "wait"
    /\ ~(commit_index[s] < c.index /\ running(s))
    /\ store' = [store EXCEPT ![s] = r.store]
    /\ exec_count' = [exec_count EXCEPT ![s][c.index] = @ + 1]
    /\ calls' = calls (-) SetToBag({c})
    /\ last_result' = Result(s, c.cmd, r.ok, "executed", Nil)
    /\ UNCHANGED <<peer_addresses, lifecycle, consensus_vars, log_vars,
                   peer_down, threads, elected, apply_seq, granted, budget,
                   business_vars>>

\* ---------------------------------------------------------------- Next
Threads == BagToSet(threads)
Calls == BagToSet(calls)

\* Two replicas (or one): timers fire, every RPC gets through, clients
\* write, the apply loops run; no replica is stopped.
Next ==
    \/ \E s \in Server : Start(s)
    \/ \E s \in Server : ElectionTimeout(s)
    \/ \E t \in Threads : VoteSend(t)
    \/ \E t \in Threads : HandleRequestVote(t)
    \/ \E t \in Threads : VoteResponse(t)
    \/ \E s \in Server : Heartbeat(s)
    \/ \E t \in Threads : AppendSend(t)
    \/ \E t \in Threads : HandleSendHeartbeat(t)
    \/ \E t \in Threads : AppendResponse(t)
    \/ \E s \in Server : Apply(s)
    \/ \E s \in Server, cmd \in Command : SubmitAccept(s, cmd)
    \/ \E s \in Server, cmd \in Command : SubmitReject(s, cmd)
    \/ \E c \in Calls : _append_log_entry(c)
    \/ \E c \in Calls : SubmitExecute(c)

Spec == Init /\ [][Next]_vars

\* The same with an apply loop that keeps running: the loop of a running
\* node comes round every 10 ms, so a step of it that stays possible is
\* taken.
SpecApplyLoop == Init /\ [][Next]_vars /\ \A s \in Server : WF_vars(Apply(s))

\* The same replicas when RPC attempts may raise and stop() may be called;
\* the periodic heartbeat rounds are left out, append-entries calls are
\* made for the entries the clients write.
NextFaults ==
    \/ \E s \in Server : Start(s)
    \/ \E s \in Server : Stop(s)
    \/ \E s \in Server : ElectionTimeout(s)
    \/ \E t \in Threads : VoteSend(t)
    \/ \E t \in Threads : HandleRequestVote(t)
    \/ \E t \in Threads : VoteResponse(t)
    \/ \E t \in Threads : RpcRetry(t)
    \/ \E t \in Threads : VoteGiveUp(t)
    \/ \E s \in Server, p \in Server : PeerDownExpire(s, p)
    \/ \E t \in Threads : AppendSend(t)
    \/ \E t \in Threads : HandleSendHeartbeat(t)
    \/ \E t \in Threads : AppendResponse(t)
    \/ \E t \in Threads : AppendGiveUp(t)
    \/ \E s \in Server : Apply(s)
    \/ \E s \in Server, cmd \in Command : SubmitAccept(s, cmd)
    \/ \E s \in Server, cmd \in Command : SubmitReject(s, cmd)
    \/ \E c \in Calls : _append_log_entry(c)
    \/ \E c \in Calls : SubmitExecute(c)

SpecFaults == Init /\ [][NextFaults]_vars

\* Three replicas whose timers fire and whose RPCs all get through; no
\* client writes.
NextElection ==
    \/ \E s \in Server : Start(s)
    \/ \E s \in Server : ElectionTimeout(s)
    \/ \E t \in Threads : VoteSend(t)
    \/ \E t \in Threads : HandleRequestVote(t)
    \/ \E t \in Threads : VoteResponse(t)
    \/ \E s \in Server : Heartbeat(s)
    \/ \E t \in Threads : AppendSend(t)
    \/ \E t \in Threads : HandleSendHeartbeat(t)
    \/ \E t \in Threads : AppendResponse(t)

InitElection == InitOf(Three) /\ IdleStore /\ IdleMerge

SpecElection == InitElection /\ [][NextElection]_vars

\* Two replicas (or one) whose timers fire and whose vote requests may
\* raise, so that a node comes to mark its peer as down; no client writes
\* and no heartbeat is sent.
NextOutage ==
    \/ \E s \in Server : Start(s)
    \/ \E s \in Server : ElectionTimeoutInOutage(s)
    \/ \E t \in Threads : VoteSend(t)
    \/ \E t \in Threads : HandleRequestVote(t)
    \/ \E t \in Threads : VoteResponse(t)
    \/ \E t \in Threads : RpcRetry(t)
    \/ \E t \in Threads : VoteGiveUp(t)
    \/ \E s \in Server, p \in Server : PeerDownExpire(s, p)

SpecOutage == Init /\ [][NextOutage]_vars

\* Four replicas of which s1 alone runs into its election timeout; every
\* RPC gets through, and no client writes.
NextRecount ==
    \/ \E s \in Server : Start(s)
    \/ ElectionTimeout("s1")
    \/ \E t \in Threads : VoteSend(t)
    \/ \E t \in Threads : HandleRequestVote(t)
    \/ \E t \in Threads : VoteResponse(t)

InitRecount == InitOf(Four) /\ IdleStore /\ IdleMerge

SpecRecount == InitRecount /\ [][NextRecount]_vars

\* =========================================== the character-level merge
\* Text is a sequence of one-character strings; positions count from 0 as
\* in the source.
Min2(x, y) == IF x <= y THEN x ELSE y
Max2(x, y) == IF x >= y THEN x ELSE y
MaxOf(S) == CHOOSE n \in S : \A m \in S : n >= m

\* s[i:j] for 0 <= i
Slice(s, i, j) == SubSeq(s, i + 1, Min2(j, Len(s)))

\* The places where a[i:i+k] == b[j:j+k] inside a[alo:ahi] and b[blo:bhi].
MatchesOfSize(a, b, alo, ahi, blo, bhi, k) ==
    {m \in (alo..(ahi - k)) \X (blo..(bhi - k)) :
        Slice(a, m[1], m[1] + k) = Slice(b, m[2], m[2] + k)}

\* difflib.SequenceMatcher.find_longest_match without junk (isjunk is None
\* and the automatic junk heuristic needs 200 elements): the longest
\* common block, of those the one starting earliest in a, of those the one
\* starting earliest in b; (alo, blo, 0) when nothing matches.
find_longest_match(a, b, alo, ahi, blo, bhi) ==
    LET k == MaxOf({n \in 0..Min2(ahi - alo, bhi - blo) :
                      MatchesOfSize(a, b, alo, ahi, blo, bhi, n) # {}})
        found == MatchesOfSize(a, b, alo, ahi, blo, bhi, k)
        i == MinOf({m[1] : m \in found})
        j == MinOf({m[2] : m \in {n \in found : n[1] = i}})
    IN  [a |-> i, b |-> j, size |-> k]

\* difflib.SequenceMatcher.get_matching_blocks before the closing
\* (len(a), len(b), 0) block: the longest block, then the blocks to its
\* left and to its right, in increasing order.
RECURSIVE matching_blocks(_, _, _, _, _, _)
matching_blocks(a, b, alo, ahi, blo, bhi) ==
    LET x == find_longest_match(a, b, alo, ahi, blo, bhi) IN
    IF x.size = 0 THEN <<>>
    ELSE (IF alo < x.a /\ blo < x.b
            THEN matching_blocks(a, b, alo, x.a, blo, x.b) ELSE <<>>)
         \o <<x>> \o
         (IF x.a + x.size < ahi /\ x.b + x.size < bhi
            THEN matching_blocks(a, b, x.a + x.size, ahi, x.b + x.size, bhi)
            ELSE <<>>)

get_matching_blocks(a, b) ==
    matching_blocks(a, b, 0, Len(a), 0, Len(b))
        \o <<[a |-> Len(a), b |-> Len(b), size |-> 0]>>

\* The loop of difflib.SequenceMatcher.get_opcodes from position (i, j).
RECURSIVE opcodes_from(_, _, _)
opcodes_from(blocks, i, j) ==
    IF blocks = <<>> THEN <<>>
    ELSE LET m == Head(blocks)
             tag == IF i < m.a /\ j < m.b THEN "replace"
                    ELSE IF i < m.a THEN "delete"
                    ELSE IF j < m.b THEN "insert"
                    ELSE ""
             gap == IF tag = "" THEN <<>>
                    ELSE <<[tag |-> tag, i1 |-> i, i2 |-> m.a,
                            j1 |-> j, j2 |-> m.b]>>
             same == IF m.size = 0 THEN <<>>
                     ELSE <<[tag |-> "equal", i1 |-> m.a, i2 |-> m.a + m.size,
                             j1 |-> m.b, j2 |-> m.b + m.size]>>
         IN  gap \o same \o opcodes_from(Tail(blocks), m.a + m.size,
                                         m.b + m.size)

get_opcodes(a, b) == opcodes_from(get_matching_blocks(a, b), 0, 0)

\* An operation dictionary; a key the source leaves out is 0 or "".
Operation(type, pos, length, old_length, text) ==
    [type |-> type, pos |-> pos, length |-> length,
     old_length |-> old_length, text |-> text]

RECURSIVE operations_of(_, _)
operations_of(opcodes, b) ==
    IF opcodes = <<>> THEN <<>>
    ELSE LET c == Head(opcodes)
             rest == operations_of(Tail(opcodes), b)
         IN  IF c.tag = "insert"
               THEN <<Operation("insert", c.i1, 0, 0, Slice(b, c.j1, c.j2))>>
                    \o rest
             ELSE IF c.tag = "delete"
               THEN <<Operation("delete", c.i1, c.i2 - c.i1, 0, <<>>)>>
                    \o rest
             ELSE IF c.tag = "replace"
               THEN <<Operation("replace", c.i1, 0, c.i2 - c.i1,
                                Slice(b, c.j1, c.j2))>> \o rest
             ELSE rest

\* BusinessLogic._get_character_operations of SequenceMatcher(None, a, b)
_get_character_operations(a, b) == operations_of(get_opcodes(a, b), b)

\* Variant of the sort below that leaves the operations in the order of the
\* opcodes (ascending); C18 is sensitive to the difference.
KeepOrder(ops) == ops

\* ops.sort(key=lambda x: x['pos'], reverse=True): stable
RECURSIVE sort_descending(_)
sort_descending(ops) ==
    IF ops = <<>> THEN <<>>
    ELSE LET sorted == sort_descending(SubSeq(ops, 1, Len(ops) - 1))
             op == ops[Len(ops)]
             n == Cardinality({i \in 1..Len(sorted) : sorted[i].pos >= op.pos})
         IN  SubSeq(sorted, 1, n) \o <<op>> \o SubSeq(sorted, n + 1, Len(sorted))

\* sorted(ops, key=lambda x: x['pos']): stable
RECURSIVE sort_ascending(_)
sort_ascending(ops) ==
    IF ops = <<>> THEN <<>>
    ELSE LET sorted == sort_ascending(SubSeq(ops, 1, Len(ops) - 1))
             op == ops[Len(ops)]
             n == Cardinality({i \in 1..Len(sorted) : sorted[i].pos <= op.pos})
         IN  SubSeq(sorted, 1, n) \o <<op>> \o SubSeq(sorted, n + 1, Len(sorted))

\* list(text): one list element per character
list_of(text) == [i \in 1..Len(text) |-> <<text[i]>>]

\* ''.join(result)
RECURSIVE join(_)
join(result) ==
    IF result = <<>> THEN <<>> ELSE Head(result) \o join(Tail(result))

\* result.insert(pos, x): x becomes ONE element of the list, whatever its
\* length; a position past the end appends.
list_insert(result, pos, x) ==
    LET p == Min2(pos, Len(result)) IN
    SubSeq(result, 1, p) \o <<x>> \o SubSeq(result, p + 1, Len(result))

\* del result[lo:hi]
list_del(result, lo, hi) ==
    LET l == Min2(lo, Len(result))
        h == Min2(hi, Len(result))
    IN  IF h <= l THEN result
        ELSE SubSeq(result, 1, l) \o SubSeq(result, h + 1, Len(result))

\* One round of the loop "Apply server operations first".
apply_server_op(result, op) ==
    IF op.type = "insert" THEN list_insert(result, op.pos, op.text)
    ELSE IF op.type = "delete"
      THEN list_del(result, op.pos, op.pos + op.length)
    ELSE list_insert(list_del(result, op.pos, op.pos + op.old_length),
                     op.pos, op.text)

RECURSIVE apply_server_ops(_, _)
apply_server_ops(result, ops) ==
    IF ops = <<>> THEN result
    ELSE apply_server_ops(apply_server_op(result, Head(ops)), Tail(ops))

\* One round of the loop "Apply transformed client operations".
apply_client_op(result, op) ==
    IF op.type = "insert"
      THEN list_insert(result, Min2(op.pos, Len(result)), op.text)
    ELSE IF op.pos >= Len(result) THEN result
    ELSE IF op.type = "delete"
      THEN list_del(result, op.pos, Min2(op.pos + op.length, Len(result)))
    ELSE list_insert(list_del(result, op.pos,
                              Min2(op.pos + op.old_length, Len(result))),
                     op.pos, op.text)

RECURSIVE apply_client_ops(_, _)
apply_client_ops(result, ops) ==
    IF ops = <<>> THEN result
    ELSE apply_client_ops(apply_client_op(result, Head(ops)), Tail(ops))

\* transformed_op.get('length', transformed_op.get('old_length', 0))
client_length(t) == IF t.type = "delete" THEN t.length ELSE t.old_length

\* The branch "Overlapping ..." of the transformation: the overlap is taken
\* with the position already moved, and shortens the client operation.
shorten(t, pos, server_pos, server_end, client_end) ==
    LET overlap == Min2(client_end, server_end) - Max2(pos, server_pos)
        moved == [t EXCEPT !.pos = pos]
    IN  IF overlap <= 0 THEN moved
        ELSE IF t.type = "delete"
          THEN [moved EXCEPT !.length = Max2(0, @ - overlap)]
        ELSE [moved EXCEPT !.old_length = Max2(0, @ - overlap)]

\* The body of the inner loop of _transform_character_operations: the
\* client operation t after the server operation s.
transform_against(t, s) ==
    IF s.type = "insert"
      THEN IF s.pos <= t.pos THEN [t EXCEPT !.pos = @ + Len(s.text)] ELSE t
    ELSE IF s.type = "delete"
      THEN LET server_end == s.pos + s.length
               client_end == t.pos + client_length(t)
           IN  IF t.type = "insert"
                 THEN IF s.pos < t.pos
                        THEN IF server_end <= t.pos
                               THEN [t EXCEPT !.pos = @ - s.length]
                               ELSE [t EXCEPT !.pos = s.pos]
                        ELSE t
               ELSE IF server_end <= t.pos
                 THEN [t EXCEPT !.pos = @ - s.length]
               ELSE IF s.pos >= client_end THEN t
               ELSE shorten(t, IF s.pos <= t.pos THEN s.pos ELSE t.pos,
                            s.pos, server_end, client_end)
    ELSE LET server_end == s.pos + s.old_length
             client_end == t.pos + client_length(t)
             length_diff == Len(s.text) - s.old_length
         IN  IF t.type = "insert"
               THEN IF s.pos < t.pos
                      THEN IF server_end <= t.pos
                             THEN [t EXCEPT !.pos = @ + length_diff]
                             ELSE [t EXCEPT !.pos = s.pos + Len(s.text)]
                      ELSE t
             ELSE IF server_end <= t.pos
               THEN [t EXCEPT !.pos = @ + length_diff]
             ELSE IF s.pos >= client_end THEN t
             ELSE shorten(t, IF s.pos <= t.pos THEN s.pos + Len(s.text)
                                               ELSE t.pos,
                          s.pos, server_end, client_end)

RECURSIVE transform_through(_, _)
transform_through(t, server_ops_sorted) ==
    IF server_ops_sorted = <<>> THEN t
    ELSE transform_through(transform_against(t, Head(server_ops_sorted)),
                           Tail(server_ops_sorted))

\* "Add the transformed operation if it's still valid"
still_valid(t) ==
    \/ t.type = "insert" /\ t.text # <<>>
    \/ t.type = "delete" /\ t.length > 0
    \/ t.type = "replace" /\ t.text # <<>>

RECURSIVE transform_each(_, _)
transform_each(server_ops_sorted, client_ops) ==
    IF client_ops = <<>> THEN <<>>
    ELSE LET t == transform_through(Head(client_ops), server_ops_sorted)
         IN  (IF still_valid(t) THEN <<t>> ELSE <<>>)
             \o transform_each(server_ops_sorted, Tail(client_ops))

\* BusinessLogic._transform_character_operations
_transform_character_operations(server_ops, client_ops) ==
    transform_each(sort_ascending(server_ops), client_ops)

\* The buffer of _merge_changes_character_level after its first loop.
server_applied(base_content, current_content) ==
    apply_server_ops(list_of(base_content),
        sort_descending(_get_character_operations(base_content,
                                                  current_content)))

\* BusinessLogic._merge_changes_character_level
_merge_changes_character_level(base_content, current_content, new_content) ==
    LET server_ops == sort_descending(
                _get_character_operations(base_content, current_content))
        client_ops == sort_descending(
                _get_character_operations(base_content, new_content))
        result == apply_server_ops(list_of(base_content), server_ops)
        transformed_client_ops ==
                _transform_character_operations(server_ops, client_ops)
    IN  join(apply_client_ops(result, transformed_client_ops))

\* ====================================================== the Store
\* A Store is the content of the JSON file: users maps each username to
\* its password and its list of document ids, documents maps each id to the
\* document's title, data, last_edited and list of usernames.
User(password, documents) == [password |-> password, documents |-> documents]

Document(title, data, last_edited, users) ==
    [title |-> title, data |-> data, last_edited |-> last_edited,
     users |-> users]

\* d[k] = v and del d[k] on a dictionary
Put(d, k, v) == [x \in DOMAIN d \cup {k} |-> IF x = k THEN v ELSE d[x]]
Del(d, k) == [x \in DOMAIN d \ {k} |-> d[x]]

\* x in l, and l.remove(x) for an x in l
Contains(l, x) == \E i \in 1..Len(l) : l[i] = x
list_remove(l, x) ==
    LET i == MinOf({n \in 1..Len(l) : l[n] = x}) IN
    SubSeq(l, 1, i - 1) \o SubSeq(l, i + 1, Len(l))

\* What a DatabaseInterface method returns, and the file it leaves.
Written(ok, st) == [ok |-> ok, db |-> st]

\* DatabaseInterface.create_user
create_user(st, username, user) ==
    IF username \in DOMAIN st.users THEN Written(FALSE, st)
    ELSE Written(TRUE, [st EXCEPT !.users = Put(@, username, user)])

\* DatabaseInterface.get_user
get_user(st, username) ==
    IF username \in DOMAIN st.users THEN Some(st.users[username]) ELSE None

\* DatabaseInterface.update_user
update_user(st, username, user) ==
    IF username \notin DOMAIN st.users THEN Written(FALSE, st)
    ELSE Written(TRUE, [st EXCEPT !.users = Put(@, username, user)])

\* The loop "Update users' document lists" of create_document.
RECURSIVE list_document(_, _, _)
list_document(users, usernames, id) ==
    IF usernames = <<>> THEN users
    ELSE LET u == Head(usernames) IN
         list_document(
            IF u \in DOMAIN users /\ ~Contains(users[u].documents, id)
              THEN [users EXCEPT ![u].documents = Append(@, id)]
              ELSE users,
            Tail(usernames), id)

\* DatabaseInterface.create_document
db_create_document(st, id, document) ==
    IF id \in DOMAIN st.documents THEN Written(FALSE, st)
    ELSE Written(TRUE, [users |-> list_document(st.users, document.users, id),
                        documents |-> Put(st.documents, id, document)])

\* DatabaseInterface.get_document
db_get_document(st, id) ==
    IF id \in DOMAIN st.documents THEN Some(st.documents[id]) ELSE None

\* DatabaseInterface.update_document
update_document(st, id, document) ==
    IF id \notin DOMAIN st.documents THEN Written(FALSE, st)
    ELSE Written(TRUE, [st EXCEPT !.documents = Put(@, id, document)])

\* Variant of the loop below that leaves the lists of the users alone; C15
\* is sensitive to the difference.
KeepListed(users, usernames, id) == users

\* The loop "Remove document from users' document lists" of delete_document.
RECURSIVE unlist_document(_, _, _)
unlist_document(users, usernames, id) ==
    IF usernames = <<>> THEN users
    ELSE LET u == Head(usernames) IN
         unlist_document(
            IF u \in DOMAIN users /\ Contains(users[u].documents, id)
              THEN [users EXCEPT ![u].documents = list_remove(@, id)]
              ELSE users,
            Tail(usernames), id)

\* DatabaseInterface.delete_document
db_delete_document(st, id) ==
    IF id \notin DOMAIN st.documents THEN Written(FALSE, st)
    ELSE Written(TRUE,
            [users |-> unlist_document(st.users, st.documents[id].users, id),
             documents |-> Del(st.documents, id)])

\* ---------------------------------------------------- BusinessLogic
\* What a BusinessLogic method returns (success, message and, where the
\* method has one, the third component), and the file it leaves.
Outcome(st, success, message, value) ==
    [db |-> st,
     ret |-> [success |-> success, message |-> message, value |-> value]]

\* BusinessLogic.register_user
register_user(st, username, password) ==
    IF username = "" \/ password = ""
      THEN Outcome(st, FALSE, "Username and password are required.", None)
    ELSE IF get_user(st, username) # None
      THEN Outcome(st, FALSE, "Username already exists.", None)
    ELSE LET w == create_user(st, username, User(password, <<>>)) IN
         IF w.ok THEN Outcome(w.db, TRUE, "User registered successfully.", None)
         ELSE Outcome(w.db, FALSE, "Failed to register user.", None)

\* Variant of authenticate_user that does not compare the passwords; C21 is
\* sensitive to the difference.
AcceptAnyPassword(st, username, password) ==
    IF get_user(st, username) = None
      THEN Outcome(st, FALSE, "User not found.", None)
    ELSE Outcome(st, TRUE, "Authentication successful.", None)

\* BusinessLogic.authenticate_user
authenticate_user(st, username, password) ==
    IF get_user(st, username) = None
      THEN Outcome(st, FALSE, "User not found.", None)
    ELSE IF st.users[username].password # password
      THEN Outcome(st, FALSE, "Invalid password.", None)
    ELSE Outcome(st, TRUE, "Authentication successful.", None)

\* BusinessLogic.create_document; uuid is what uuid.uuid4() returns and now
\* is what datetime.now() returns on the node that runs the method.
create_document(st, title, username, uuid, now) ==
    IF get_user(st, username) = None
      THEN Outcome(st, FALSE, "User not found.", None)
    ELSE LET user == st.users[username]
             w == db_create_document(st, uuid,
                        Document(title, <<>>, now, <<username>>))
         IN  IF w.ok
               THEN Outcome(
                      update_user(w.db, username,
                          [user EXCEPT !.documents = Append(@, uuid)]).db,
                      TRUE, "Document created successfully.", Some(uuid))
               ELSE Outcome(w.db, FALSE, "Failed to create document.", None)

\* Variant of get_document that does not look at the users list; C22 is
\* sensitive to the difference.
GetWithoutAccessCheck(st, document_id, username) ==
    IF db_get_document(st, document_id) = None
      THEN Outcome(st, FALSE, "Document not found.", None)
    ELSE Outcome(st, TRUE, "Document retrieved successfully.",
                 Some(st.documents[document_id]))

\* BusinessLogic.get_document
get_document(st, document_id, username) ==
    IF db_get_document(st, document_id) = None
      THEN Outcome(st, FALSE, "Document not found.", None)
    ELSE IF ~Contains(st.documents[document_id].users, username)
      THEN Outcome(st, FALSE, "User does not have access to this document.",
                   None)
    ELSE Outcome(st, TRUE, "Document retrieved successfully.",
                 Some(st.documents[document_id]))

\* BusinessLogic.update_document_title
update_document_title(st, document_id, title, username, now) ==
    LET got == get_document(st, document_id, username) IN
    IF ~got.ret.success THEN Outcome(st, FALSE, got.ret.message, None)
    ELSE LET document == [got.ret.value[1] EXCEPT !.title = title,
                                                  !.last_edited = now]
             w == update_document(st, document_id, document)
         IN  IF w.ok
               THEN Outcome(w.db, TRUE, "Document title updated successfully.",
                            None)
               ELSE Outcome(w.db, FALSE, "Failed to update document title.",
                            None)

\* BusinessLogic.delete_document
delete_document(st, document_id, username) ==
    LET got == get_document(st, document_id, username) IN
    IF ~got.ret.success THEN Outcome(st, FALSE, got.ret.message, None)
    ELSE LET w == db_delete_document(st, document_id) IN
         IF w.ok THEN Outcome(w.db, TRUE, "Document deleted successfully.",
                              None)
         ELSE Outcome(w.db, FALSE, "Failed to delete document.", None)

\* BusinessLogic.add_user_to_document
add_user_to_document(st, document_id, username, added_by) ==
    LET got == get_document(st, document_id, added_by) IN
    IF ~got.ret.success THEN Outcome(st, FALSE, got.ret.message, None)
    ELSE IF get_user(st, username) = None
      THEN Outcome(st, FALSE, "User to add not found.", None)
    ELSE IF Contains(got.ret.value[1].users, username)
      THEN Outcome(st, FALSE, "User already has access to this document.",
                   None)
    ELSE LET user_to_add == st.users[username]
             document == [got.ret.value[1] EXCEPT !.users = Append(@, username)]
             w == update_document(st, document_id, document)
         IN  IF w.ok
               THEN Outcome(
                      IF ~Contains(user_to_add.documents, document_id)
                        THEN update_user(w.db, username,
                                [user_to_add EXCEPT
                                    !.documents = Append(@, document_id)]).db
                        ELSE w.db,
                      TRUE, "User added to document successfully.", None)
               ELSE Outcome(w.db, FALSE, "Failed to add user to document.",
                            None)

\* BusinessLogic.remove_user_from_document
remove_user_from_document(st, document_id, username, removed_by) ==
    LET got == get_document(st, document_id, removed_by) IN
    IF ~got.ret.success THEN Outcome(st, FALSE, got.ret.message, None)
    ELSE IF ~Contains(got.ret.value[1].users, username)
      THEN Outcome(st, FALSE, "User does not have access to this document.",
                   None)
    ELSE LET document == [got.ret.value[1] EXCEPT
                              !.users = list_remove(@, username)]
             w == update_document(st, document_id, document)
             user_to_remove == get_user(w.db, username)
         IN  IF w.ok
               THEN Outcome(
                      IF /\ user_to_remove # None
                         /\ Contains(user_to_remove[1].documents, document_id)
                        THEN update_user(w.db, username,
                                [user_to_remove[1] EXCEPT
                                    !.documents = list_remove(@, document_id)]).db
                        ELSE w.db,
                      TRUE, "User removed from document successfully.", None)
               ELSE Outcome(w.db, FALSE, "Failed to remove user from document.",
                            None)

\* BusinessLogic.update_document_content
update_document_content(st, document_id, content, username, now) ==
    LET got == get_document(st, document_id, username) IN
    IF ~got.ret.success THEN Outcome(st, FALSE, got.ret.message, None)
    ELSE LET document == [got.ret.value[1] EXCEPT !.data = content,
                                                  !.last_edited = now]
             w == update_document(st, document_id, document)
         IN  IF w.ok
               THEN Outcome(w.db, TRUE,
                            "Document content updated successfully.",
                            Some(content))
               ELSE Outcome(w.db, FALSE, "Failed to update document content.",
                            None)

\* The test that sends update_document_content_with_merge down its fast
\* path.
SameAsBase(base_content, current_content) == base_content = current_content

\* Variant of the fast path that returns without storing; C19 is sensitive
\* to the difference.
ReturnUnstored(st, document_id, document, new_content, now) ==
    Outcome(st, TRUE, "Document content updated successfully.",
            Some(new_content))

\* The block "if base_content == current_content" of
\* update_document_content_with_merge.
fast_path(st, document_id, document, new_content, now) ==
    LET w == update_document(st, document_id,
                [document EXCEPT !.data = new_content, !.last_edited = now])
    IN  IF w.ok
          THEN Outcome(w.db, TRUE, "Document content updated successfully.",
                       Some(new_content))
          ELSE Outcome(w.db, FALSE, "Failed to update document content.", None)

\* The try block of update_document_content_with_merge.  The merge raises
\* no exception on texts, so the except branch is not taken.
merge_path(st, document_id, document, merged_content, now) ==
    LET w == update_document(st, document_id,
                [document EXCEPT !.data = merged_content,
                                 !.last_edited = now])
    IN  IF w.ok
          THEN Outcome(w.db, TRUE, "Document content merged successfully.",
                       Some(merged_content))
          ELSE Outcome(w.db, FALSE, "Failed to update document content.", None)

\* BusinessLogic.update_document_content_with_merge
update_document_content_with_merge(st, document_id, new_content, base_content, username, now) ==
    LET got == get_document(st, document_id, username) IN
    IF ~got.ret.success THEN Outcome(st, FALSE, got.ret.message, None)
    ELSE LET document == got.ret.value[1]
             current_content == document.data
         IN  IF SameAsBase(base_content, current_content)
               THEN fast_path(st, document_id, document, new_content, now)
               ELSE merge_path(st, document_id, document,
                        _merge_changes_character_level(base_content,
                            current_content, new_content),
                        now)

\* ------------------------------------- replicas applying the same log
\* What the commands of the clients draw their arguments from.
StoreUser == {"alice", "bob"}
Password == {"pw"}
Title == {"t1"}
NewTitle == {"t2"}
Content == {<<"a">>, <<"a", "b">>}
BaseContent == {<<>>, <<"a">>}

\* What uuid.uuid4() and datetime.now() can return.
DocId == {"d1", "d2"}
Time == {1, 2}

raft_vars == <<peer_addresses, lifecycle, consensus_vars, log_vars, peer_down,
               store, threads, client_vars, hist_vars, budget>>

\* Every replica applies the next command of the log, cmd; out[r] is what
\* the method that _apply_command calls for cmd does on replica r.
Applies(cmd, out) ==
    /\ applied < MaxCommands
    /\ applied' = applied + 1
    /\ refused' = IF \A r \in Replica : ~out[r].ret.success
                    THEN refused + 1 ELSE refused
    /\ refused' <= MaxRefused
    /\ last_command' = cmd
    /\ db' = [r \in Replica |-> out[r].db]
    /\ returned' = [r \in Replica |-> out[r].ret]
    /\ first_password' = [r \in Replica |->
          IF /\ cmd.operation = "register_user" /\ out[r].ret.success
             /\ cmd.username \notin DOMAIN first_password[r]
            THEN Put(first_password[r], cmd.username, cmd.password)
            ELSE first_password[r]]
    /\ UNCHANGED <<raft_vars, merge_vars, method_call>>

\* The readings of the clocks of the replicas, and the ids they mint.
Clocks == [Replica -> Time]
Minted == {uuid \in [Replica -> DocId] :
              \A r \in Replica : uuid[r] \notin DOMAIN db[r].documents}

ApplyRegisterUser ==
    \E u \in StoreUser, p \in Password \cup {""} :
        Applies([operation |-> "register_user", username |-> u,
                 password |-> p],
                [r \in Replica |-> register_user(db[r], u, p)])

ApplyAuthenticateUser ==
    \E u \in StoreUser, p \in Password :
        Applies([operation |-> "authenticate_user", username |-> u,
                 password |-> p],
                [r \in Replica |-> authenticate_user(db[r], u, p)])

ApplyCreateDocument ==
    \E t \in Title, u \in StoreUser, uuid \in Minted, now \in Clocks :
        Applies([operation |-> "create_document", title |-> t,
                 username |-> u],
                [r \in Replica |-> create_document(db[r], t, u, uuid[r], now[r])])

ApplyUpdateDocumentTitle ==
    \E d \in DocId, t \in NewTitle, u \in StoreUser, now \in Clocks :
        Applies([operation |-> "update_document_title", document_id |-> d,
                 title |-> t, username |-> u],
                [r \in Replica |-> update_document_title(db[r], d, t, u, now[r])])

ApplyUpdateDocumentContent ==
    \E d \in DocId, c \in Content, b \in BaseContent, u \in StoreUser,
       now \in Clocks :
        Applies([operation |-> "update_document_content", document_id |-> d,
                 content |-> c, base_content |-> b, username |-> u],
                [r \in Replica |->
                    IF b # <<>>
                      THEN update_document_content_with_merge(db[r], d, c, b, u, now[r])
                      ELSE update_document_content(db[r], d, c, u, now[r])])

ApplyDeleteDocument ==
    \E d \in DocId, u \in StoreUser :
        Applies([operation |-> "delete_document", document_id |-> d,
                 username |-> u],
                [r \in Replica |-> delete_document(db[r], d, u)])

ApplyAddUserToDocument ==
    \E d \in DocId, u \in StoreUser, by \in StoreUser :
        Applies([operation |-> "add_user_to_document", document_id |-> d,
                 username |-> u, added_by |-> by],
                [r \in Replica |-> add_user_to_document(db[r], d, u, by)])

ApplyRemoveUserFromDocument ==
    \E d \in DocId, u \in StoreUser, by \in StoreUser :
        Applies([operation |-> "remove_user_from_document", document_id |-> d,
                 username |-> u, removed_by |-> by],
                [r \in Replica |-> remove_user_from_document(db[r], d, u, by)])

NextStore ==
    \/ ApplyRegisterUser
    \/ ApplyAuthenticateUser
    \/ ApplyCreateDocument
    \/ ApplyUpdateDocumentTitle
    \/ ApplyUpdateDocumentContent
    \/ ApplyDeleteDocument
    \/ ApplyAddUserToDocument
    \/ ApplyRemoveUserFromDocument

\* Two replicas with fresh Stores that apply one sequence of commands.
InitStore == InitOf(Singleton) /\ IdleStore /\ IdleMerge

SpecStore == InitStore /\ [][NextStore]_vars

\* ------------------------------------------------------------ accounts
\* The commands that read or write the user records, with clients that
\* also leave the username blank and also use a second password.
Credential == Password \cup {"pw2"}

RegisterAnyUser ==
    \E u \in StoreUser \cup {""}, p \in Credential \cup {""} :
        Applies([operation |-> "register_user", username |-> u,
                 password |-> p],
                [r \in Replica |-> register_user(db[r], u, p)])

AuthenticateAnyUser ==
    \E u \in StoreUser, p \in Credential :
        Applies([operation |-> "authenticate_user", username |-> u,
                 password |-> p],
                [r \in Replica |-> authenticate_user(db[r], u, p)])

NextAccounts ==
    \/ RegisterAnyUser
    \/ AuthenticateAnyUser
    \/ ApplyCreateDocument
    \/ ApplyDeleteDocument
    \/ ApplyAddUserToDocument
    \/ ApplyRemoveUserFromDocument

SpecAccounts == InitStore /\ [][NextAccounts]_vars

\* ------------------------------------- two method calls on one node
\* The apply loop and the caller of a submit method both call BusinessLogic
\* methods on the node's database; the methods take no lock of their own,
\* each DatabaseInterface method they call takes the database lock for
\* itself.  One action per DatabaseInterface call; the node is replica Local.
Local == "r1"

\* A step of thread k that leaves the file as database and the call as op.
Step(k, database, op) ==
    /\ db' = [db EXCEPT ![Local] = database]
    /\ method_call' = [method_call EXCEPT ![k] = op]
    /\ UNCHANGED <<raft_vars, merge_vars, last_command, returned, applied,
                   refused, first_password>>

\* BusinessLogic.create_document: user = self.db.get_user(username)
CreateGetUser(k, username) ==
    /\ method_call[k].pc = "idle"
    /\ get_user(db[Local], username) # None
    /\ Step(k, db[Local],
            Op("create", username, Nil, get_user(db[Local], username), None))

\* ... document_id = str(uuid.uuid4()); self.db.create_document(document)
CreateStore(k, uuid, now) ==
    LET o == method_call[k]
        w == db_create_document(db[Local], uuid,
                 Document("t1", <<>>, now, <<o.username>>))
    IN
    /\ o.pc = "create"
    /\ uuid \notin DOMAIN db[Local].documents
    /\ Step(k, w.db, IF w.ok THEN [o EXCEPT !.pc = "link", !.document_id = uuid]
                               ELSE IdleOp)

\* ... user.documents.append(document_id); self.db.update_user(user)
CreateLink(k) ==
    LET o == method_call[k]
        user == [o.user[1] EXCEPT !.documents = Append(@, o.document_id)]
    IN
    /\ o.pc = "link"
    /\ Step(k, update_user(db[Local], o.username, user).db, IdleOp)

\* BusinessLogic.add_user_to_document: self.get_document(document_id,
\* added_by)
AddGetDocument(k, document_id, username, added_by) ==
    LET got == get_document(db[Local], document_id, added_by) IN
    /\ method_call[k].pc = "idle"
    /\ got.ret.success
    /\ Step(k, db[Local],
            Op("got_document", username, document_id, None, got.ret.value))

\* ... user_to_add = self.db.get_user(username), and the test whether the
\* user is in document.users already
AddGetUser(k) ==
    LET o == method_call[k]
        got == get_user(db[Local], o.username)
    IN
    /\ o.pc = "got_document"
    /\ Step(k, db[Local],
            IF got = None \/ Contains(o.document[1].users, o.username)
            THEN IdleOp
            ELSE [o EXCEPT !.pc = "update_document", !.user = got])

\* ... document.users.append(username); self.db.update_document(document)
AddUpdateDocument(k) ==
    LET o == method_call[k]
        document == [o.document[1] EXCEPT !.users = Append(@, o.username)]
        w == update_document(db[Local], o.document_id, document)
    IN
    /\ o.pc = "update_document"
    /\ Step(k, w.db, IF w.ok THEN [o EXCEPT !.pc = "update_user"] ELSE IdleOp)

\* ... if document_id not in user_to_add.documents: append it and
\* self.db.update_user(user_to_add)
AddUpdateUser(k) ==
    LET o == method_call[k]
        user == [o.user[1] EXCEPT !.documents = Append(@, o.document_id)]
    IN
    /\ o.pc = "update_user"
    /\ Step(k, IF Contains(o.user[1].documents, o.document_id) THEN db[Local]
               ELSE update_user(db[Local], o.username, user).db,
            IdleOp)

NextRace ==
    \/ \E k \in Task, u \in StoreUser : CreateGetUser(k, u)
    \/ \E k \in Task, uuid \in DocId, now \in Time : CreateStore(k, uuid, now)
    \/ \E k \in Task : CreateLink(k)
    \/ \E k \in Task, d \in DocId, u, by \in StoreUser :
          AddGetDocument(k, d, u, by)
    \/ \E k \in Task : AddGetUser(k)
    \/ \E k \in Task : AddUpdateDocument(k)
    \/ \E k \in Task : AddUpdateUser(k)

\* Both users of StoreUser are registered, on every replica.
Registered ==
    register_user(register_user(FreshDb, "alice", "pw").db, "bob", "pw").db

InitRace ==
    /\ InitOf(Singleton) /\ IdleMerge
    /\ db = [r \in Replica |-> Registered]
    /\ last_command = [operation |-> Nil]
    /\ returned = [r \in Replica |->
                      [success |-> FALSE, message |-> "", value |-> None]]
    /\ applied = 0
    /\ refused = 0
    /\ first_password = [r \in Replica |-> [u \in {} |-> u]]
    /\ method_call = [k \in Task |-> IdleOp]

SpecRace == InitRace /\ [][NextRace]_vars

\* ------------------------------------------------------ one merge call
\* The texts that the merge is called with: every text of up to MaxLen
\* characters, and the documented examples.
Char == {"a", "b"}
Text == UNION {[1..n -> Char] : n \in 0..MaxLen}

HelloWorld ==
    [base |-> <<"h", "e", "l", "l", "o", " ", "w", "o", "r", "l", "d">>,
     current |-> <<"H", "E", "L", "L", "O", " ", "w", "o", "r", "l", "d">>,
     new |-> <<"h", "e", "l", "l", "o", " ", "W", "O", "R", "L", "D">>]
Abcdef ==
    [base |-> <<"a", "b", "c", "d", "e", "f">>,
     current |-> <<"a", "X", "c", "d", "e", "f">>,
     new |-> <<"a", "b", "c", "Y", "e", "f">>]
Examples == {HelloWorld, Abcdef}

InitMerge ==
    /\ InitOf(Singleton)
    /\ IdleStore
    /\ merge_args \in [base : Text, current : Text, new : Text] \cup Examples
    /\ merge_ret = [done |-> FALSE, merged |-> <<>>, intermediate |-> <<>>]

\* One call of _merge_changes_character_level; intermediate is the buffer
\* after the server operations.
Merge ==
    /\ ~merge_ret.done
    /\ merge_ret' =
          [done |-> TRUE,
           merged |-> _merge_changes_character_level(
                          merge_args.base, merge_args.current, merge_args.new),
           intermediate |-> join(server_applied(merge_args.base,
                                                merge_args.current))]
    /\ UNCHANGED <<raft_vars, store_vars, merge_args>>

NextMerge == Merge

SpecMerge == InitMerge /\ [][NextMerge]_vars

\* ============================================================== claims

\* C1: election safety.  In a run in which no node has made itself leader
\* through the all-peers-down shortcut, no two different nodes have entered
\* the leader state with the same current_term.
C1_ElectionSafety ==
    (\A r \in elected : r.via = "votes") =>
        \A r1, r2 \in elected : r1.term = r2.term => r1.node = r2.node

\* C2: log match.  Two entries of two nodes' logs that have the same index
\* and the same term carry the same command.
C2_LogMatch ==
    \A s1, s2 \in Server :
        \A i \in 1..Len(log[s1]) :
            (i <= Len(log[s2]) /\ log[s1][i].term = log[s2][i].term)
                => log[s1][i].command = log[s2][i].command

\* The nodes whose log holds entry e at its index.
Holders(e) ==
    {p \in Members : Len(log[p]) > e.index /\ log[p][e.index + 1] = e}

\* C3: commit implies quorum replication.  Every entry of a leader's log up
\* to its commit_index is in the logs of a strict majority of the cluster.
C3_CommitQuorum ==
    \A s \in Server :
        state[s] = LEADER =>
            \A n \in 0..commit_index[s] :
                2 * Cardinality(Holders(log[s][n + 1])) > Cardinality(Members)

\* C4: exactly-once application.  The command of a committed entry has been
\* executed against the node's state machine at most once, and exactly once
\* when last_applied has reached its index.
C4_ExactlyOnce ==
    \A s \in Server :
        \A i \in 0..commit_index[s] :
            /\ exec_count[s][i] <= 1
            /\ i <= last_applied[s] => exec_count[s][i] = 1

\* C5: apply ordering.  On every node the indices the apply loop has handed
\* to the state machine are 0, 1, 2, ... up to last_applied, in this order,
\* each once.
C5_ApplyOrdering ==
    \A s \in Server :
        apply_seq[s] = [k \in 1..(last_applied[s] + 1) |-> k - 1]

\* A leader whose apply loop has handed over two entries.
C5_Witness ==
    \E s \in Server : state[s] = LEADER /\ apply_seq[s] = <<0, 1>>

\* C6: a write changes the Store of a node only after its entry is committed
\* there.  In every step in which the command of log index i is executed on
\* node s and the Store of s changes, commit_index of s is at least i.
C6_StoreOnlyAfterCommit ==
    [][\A s \in Server : \A i \in DOMAIN exec_count[s] :
          (exec_count'[s][i] > exec_count[s][i] /\ store'[s] # store[s])
              => commit_index[s] >= i]_vars

\* C7: on every node last_applied <= commit_index < len(log).
C7_IndexOrder ==
    \A s \in Server :
        /\ last_applied[s] <= commit_index[s]
        /\ commit_index[s] < Len(log[s])

\* A leader that has committed two entries and applied the first, next to a
\* follower that has taken its heartbeats and has committed nothing.
C7_Witness ==
    \E s, p \in Server :
        /\ state[s] = LEADER /\ Len(log[s]) = 2
        /\ commit_index[s] = 1 /\ last_applied[s] = 0
        /\ state[p] = FOLLOWER /\ leader_id[p] = s /\ commit_index[p] = -1

\* C8: current_term of a node never decreases, in any step.
C8_TermMonotone ==
    [][\A s \in Server : current_term'[s] >= current_term[s]]_vars

\* A former leader that has stepped down and is follower in the term of the
\* candidate that has started the second election.
C8_Witness ==
    \E s, p \in Server :
        /\ s # p /\ state[s] = FOLLOWER /\ leader_id[s] = s
        /\ state[p] = CANDIDATE /\ current_term[p] = 2 /\ current_term[s] = 2
        /\ [term |-> 1, node |-> s, via |-> "votes"] \in elected

\* In this step a submit call on node s has passed the leader check.
AcceptedOn(s, op) ==
    \E c \in BagToSet(calls') :
        /\ c.node = s /\ c.cmd.operation = op /\ c.pc = "append"
        /\ CopiesIn(c, calls') > CopiesIn(c, calls)

\* In this step the submit method of operation op has been called on node s.
SubmitCalledOn(s, op) ==
    /\ budget'.submits = budget.submits + 1
    /\ \/ AcceptedOn(s, op)
       \/ /\ calls' = calls
          /\ last_result'.node = s /\ last_result'.operation = op

\* The submit call of this step has returned failure, with the message of a
\* node that is not leader.
ReturnsNotLeader(s) ==
    /\ calls' = calls
    /\ last_result'.node = s
    /\ last_result'.success = FALSE
    /\ IF leader_id[s] # Nil
       THEN last_result'.kind = "not_leader" /\ last_result'.leader = leader_id[s]
       ELSE last_result'.kind = "no_leader"

\* C9: single-node commit.  On a started node without peers whose election
\* timeout has fired, a create_document that is submitted is accepted, not
\* turned away.
C9_SingletonAccepts ==
    [][\A s \in Server :
          (/\ SubmitCalledOn(s, "create_document")
           /\ peer_addresses[s] = {} /\ running(s) /\ current_term[s] >= 1)
              => AcceptedOn(s, "create_document")]_vars

Handled(t, u) ==
    /\ t.pc = "sent" /\ u.pc = "replied"
    /\ u.type = t.type /\ u.src = t.src /\ u.dst = t.dst
    /\ CopiesIn(t, threads') < CopiesIn(t, threads)
    /\ CopiesIn(u, threads') > CopiesIn(u, threads)

\* The candidate's log is at least as up-to-date as the log of s: its last
\* term is higher, or the last terms are equal and its last index is not
\* lower.
UpToDate(s, t) ==
    \/ t.llt > last_log_term(s)
    \/ t.llt = last_log_term(s) /\ t.lli >= last_log_index(s)

\* C11: a node that handles a RequestVote of a term above its own ends as
\* follower in the term of the request, answers with that term, and has
\* voted for the candidate when the candidate's log is at least as
\* up-to-date as its own, and for nobody otherwise.
C11_StepDownOnVote ==
    [][\A t \in BagToSet(threads) : \A u \in BagToSet(threads') :
          (Handled(t, u) /\ t.type = "vote" /\ t.term > current_term[t.dst])
              => /\ state'[t.dst] = FOLLOWER
                 /\ current_term'[t.dst] = t.term
                 /\ u.term = t.term
                 /\ u.ok = UpToDate(t.dst, t)
                 /\ voted_for'[t.dst] = IF UpToDate(t.dst, t) THEN t.src
                                        ELSE Nil]_vars

\* A leader of term 1 that has answered the RequestVote of term 2 of its
\* peer: it is follower in term 2 and has granted its vote.
C11_Witness ==
    \E u \in BagToSet(threads) :
        /\ u.type = "vote" /\ u.pc = "replied" /\ u.ok /\ u.term = 2
        /\ [term |-> 1, node |-> u.dst, via |-> "votes"] \in elected
        /\ state[u.dst] = FOLLOWER /\ current_term[u.dst] = 2
        /\ voted_for[u.dst] = u.src

C13_StaleTermRejected ==
    [][\A t \in BagToSet(threads) : \A u \in BagToSet(threads') :
          (Handled(t, u) /\ t.term < current_term[t.dst])
              => LET s == t.dst
                 IN /\ ~u.ok /\ u.term = current_term[s]
                    /\ state'[s] = state[s]
                    /\ current_term'[s] = current_term[s]
                    /\ voted_for'[s] = voted_for[s]
                    /\ leader_id'[s] = leader_id[s]
                    /\ log'[s] = log[s]
                    /\ commit_index'[s] = commit_index[s]]_vars

\* A candidate of term 2 that has refused the heartbeat of the leader of
\* term 1.
C13_Witness ==
    \E u \in BagToSet(threads) :
        /\ u.type = "append" /\ u.pc = "replied" /\ ~u.ok /\ u.term = 2
        /\ state[u.src] = LEADER /\ current_term[u.src] = 1
        /\ state[u.dst] = CANDIDATE /\ current_term[u.dst] = 2

\* C14: a node that handles a heartbeat of a term that is not below its own
\* ends as follower in the term of the request with the sender as leader_id,
\* and answers success with that term.
C14_HeartbeatAccepted ==
    [][\A t \in BagToSet(threads) : \A u \in BagToSet(threads') :
          (Handled(t, u) /\ t.type = "append" /\ t.term >= current_term[t.dst])
              => /\ state'[t.dst] = FOLLOWER
                 /\ current_term'[t.dst] = t.term
                 /\ leader_id'[t.dst] = t.src
                 /\ u.ok /\ u.term = t.term]_vars

\* A candidate of term 1 that has taken the heartbeat of the leader of
\* term 1: it is follower and names the sender as leader.
C14_Witness ==
    \E u \in BagToSet(threads) :
        /\ u.type = "append" /\ u.pc = "replied" /\ u.ok /\ u.term = 1
        /\ state[u.src] = LEADER /\ current_term[u.src] = 1
        /\ state[u.dst] = FOLLOWER /\ current_term[u.dst] = 1
        /\ leader_id[u.dst] = u.src /\ voted_for[u.dst] = Nil
        /\ votes_received[u.dst] = 1

\* C15: cross-reference integrity.  In the Store of every replica, after any
\* sequence of applied commands: a username is in a document's users list
\* exactly if the user exists and has the document's id in its documents
\* list, and every id in a user's documents list names a stored document.
CrossReferenced(st) ==
    /\ \A d \in DOMAIN st.documents : \A u \in StoreUser :
          Contains(st.documents[d].users, u)
              <=> (u \in DOMAIN st.users /\ Contains(st.users[u].documents, d))
    /\ \A u \in DOMAIN st.users : \A i \in 1..Len(st.users[u].documents) :
          st.users[u].documents[i] \in DOMAIN st.documents

C15_CrossReference == \A r \in Replica : CrossReferenced(db[r])

\* A user has just been removed from a document that it had created and
\* shared: the document is left to the user it was shared with.
C15_Witness ==
    /\ last_command.operation = "remove_user_from_document"
    /\ \E r \in Replica : \E d \in DOMAIN db[r].documents :
          /\ returned[r].success
          /\ last_command.document_id = d
          /\ last_command.username # last_command.removed_by
          /\ db[r].documents[d].users = <<last_command.removed_by>>
          /\ db[r].users[last_command.username].documents = <<>>
          /\ db[r].users[last_command.removed_by].documents = <<d>>

\* C16: state-machine determinism.  Replicas that start from identical
\* Stores and apply the same sequence of commands have identical Stores:
\* the same users, the same document ids with the same contents.
C16_Determinism == \A r1, r2 \in Replica : db[r1] = db[r2]

\* C17: merge with the same edit on both sides.  For texts base and current
\* with base # current, the merge of base, current and new = current
\* returns current.
C17_SameEdit ==
    (/\ merge_ret.done
     /\ merge_args.base # merge_args.current
     /\ merge_args.new = merge_args.current)
        => merge_ret.merged = merge_args.current

\* C18: merge with an unchanged client.  For texts base and current, the
\* merge of base, current and new = base returns current, and the buffer
\* after the server operations, applied to base in descending order of
\* position, is current.
C18_UnchangedClient ==
    (merge_ret.done /\ merge_args.new = merge_args.base)
        => /\ merge_ret.merged = merge_args.current
           /\ merge_ret.intermediate = merge_args.current

\* A merge with an unchanged client in which the server has both inserted
\* and deleted has returned.
C18_Witness ==
    /\ merge_ret.done
    /\ merge_args.new = merge_args.base
    /\ merge_args.base = <<"a", "b">>
    /\ merge_args.current = <<"b", "a">>
    /\ merge_ret.merged = <<"b", "a">>

\* C19: fast path of the merge.  When a replica applies an
\* update_document_content command that carries a base_content (so that
\* update_document_content_with_merge is called), the user has access to
\* the document and base_content is the document's current data, then the
\* document's data afterwards is the command's content, and the method
\* returns success with that content as the merged content.
C19_FastPath ==
    [][\A r \in Replica :
          LET cmd == last_command' IN
          (/\ applied' = applied + 1
           /\ cmd.operation = "update_document_content"
           /\ cmd.base_content # <<>>
           /\ cmd.document_id \in DOMAIN db[r].documents
           /\ Contains(db[r].documents[cmd.document_id].users, cmd.username)
           /\ db[r].documents[cmd.document_id].data = cmd.base_content)
              => /\ db'[r].documents[cmd.document_id].data = cmd.content
                 /\ returned'[r].success
                 /\ returned'[r].value = Some(cmd.content)]_vars

\* A replica has taken the fast path: the command's base_content "a" was
\* the document's data, and the data is now the command's content "ab".
C19_Witness ==
    /\ last_command.operation = "update_document_content"
    /\ last_command.base_content = <<"a">>
    /\ last_command.content = <<"a", "b">>
    /\ \E r \in Replica :
          /\ returned[r].success
          /\ returned[r].message = "Document content updated successfully."
          /\ returned[r].value = Some(<<"a", "b">>)
          /\ db[r].documents[last_command.document_id].data = <<"a", "b">>

\* C20: merge of non-overlapping edits.  An operation edits the part of
\* base from its position up to its position plus the length it deletes
\* or replaces.  When every operation of the server (base -> current) and
\* every operation of the client (base -> new) are apart, with at least
\* one character of base between them that neither side edits, the merged
\* text is base with the operations of both sides applied at their places.
extent(op) ==
    IF op.type = "insert" THEN 0
    ELSE IF op.type = "delete" THEN op.length ELSE op.old_length

Apart(s, c) == s.pos + extent(s) < c.pos \/ c.pos + extent(c) < s.pos

NonOverlapping(base, current, new) ==
    LET server_ops == _get_character_operations(base, current)
        client_ops == _get_character_operations(base, new)
    IN  \A i \in 1..Len(server_ops) : \A j \in 1..Len(client_ops) :
            Apart(server_ops[i], client_ops[j])

edit(text, op) ==
    SubSeq(text, 1, op.pos) \o op.text
        \o SubSeq(text, op.pos + extent(op) + 1, Len(text))

RECURSIVE edits(_, _)
edits(text, ops) ==
    IF ops = <<>> THEN text ELSE edits(edit(text, Head(ops)), Tail(ops))

BothEdits(base, current, new) ==
    edits(base, sort_descending(_get_character_operations(base, current)
                                \o _get_character_operations(base, new)))

C20_NonOverlapping ==
    (/\ merge_ret.done
     /\ NonOverlapping(merge_args.base, merge_args.current, merge_args.new))
        => merge_ret.merged =
              BothEdits(merge_args.base, merge_args.current, merge_args.new)

\* C21: register, then authenticate.  In every step in which a replica
\* applies authenticate_user(u, p): the call succeeds exactly if user u
\* exists and the password of the first successful register_user(u, .) is
\* p, it returns 'User not found.' when u does not exist and 'Invalid
\* password.' when the passwords differ, and the Store is left as it was.
\* In every step in which a replica applies register_user with a blank or
\* an existing username, the call fails and the Store is left as it was.
C21_RegisterThenAuthenticate ==
    [][\A r \in Replica :
          LET cmd == last_command'
              u == cmd.username
              exists == u \in DOMAIN db[r].users
              known == u \in DOMAIN first_password[r]
          IN  applied' = applied + 1 =>
                /\ cmd.operation = "authenticate_user" =>
                      /\ exists <=> known
                      /\ returned'[r].success <=>
                            (exists /\ first_password[r][u] = cmd.password)
                      /\ ~exists => returned'[r].message = "User not found."
                      /\ (exists /\ first_password[r][u] # cmd.password)
                            => returned'[r].message = "Invalid password."
                      /\ db'[r] = db[r]
                /\ (cmd.operation = "register_user" /\ (u = "" \/ exists))
                      => ~returned'[r].success /\ db'[r] = db[r]]_vars

\* A user that registered with one password and created a document has
\* just been refused with another password.
C21_Witness ==
    /\ last_command.operation = "authenticate_user"
    /\ last_command.password = "pw2"
    /\ \E r \in Replica :
          LET u == last_command.username IN
          /\ u \in DOMAIN db[r].users
          /\ first_password[r][u] = "pw"
          /\ db[r].users[u].documents # <<>>
          /\ returned[r] = [success |-> FALSE, message |-> "Invalid password.",
                            value |-> None]

\* The user on whose behalf a command on a document is made.
Actor(cmd) ==
    IF cmd.operation = "add_user_to_document" THEN cmd.added_by
    ELSE IF cmd.operation = "remove_user_from_document" THEN cmd.removed_by
    ELSE cmd.username

\* The result of a call that was refused with this message.
Refusal(message) == [success |-> FALSE, message |-> message, value |-> None]

\* C22: access check.  In every step in which a replica applies
\* update_document_title, update_document_content (with or without merge),
\* delete_document, add_user_to_document or remove_user_from_document: when
\* the document id is unknown the call fails with 'Document not found.',
\* when the acting user (username, added_by, removed_by) is not in the
\* document's users list it fails with 'User does not have access to this
\* document.', and in both cases the Store is left as it was.  In every
\* reachable Store get_document does the same for every id and username.
C22_AccessCheck ==
    [][\A r \in Replica :
          LET cmd == last_command'
              known(d) == d \in DOMAIN db[r].documents
              member(d, u) == Contains(db[r].documents[d].users, u)
          IN  /\ \A d \in DocId, u \in StoreUser :
                    LET got == get_document(db[r], d, u) IN
                    /\ got.db = db[r]
                    /\ ~known(d) => got.ret = Refusal("Document not found.")
                    /\ (known(d) /\ ~member(d, u)) => got.ret =
                         Refusal("User does not have access to this document.")
              /\ (/\ applied' = applied + 1
                  /\ cmd.operation \in
                        {"update_document_title", "update_document_content",
                         "delete_document", "add_user_to_document",
                         "remove_user_from_document"})
                    => /\ ~known(cmd.document_id) =>
                            /\ returned'[r] = Refusal("Document not found.")
                            /\ db'[r] = db[r]
                       /\ (/\ known(cmd.document_id)
                           /\ ~member(cmd.document_id, Actor(cmd))) =>
                            /\ returned'[r] = Refusal(
                                 "User does not have access to this document.")
                            /\ db'[r] = db[r]]_vars

\* A registered user that is not in the users list of a document has just
\* been refused the change of its title, and the title is the old one.
C22_Witness ==
    /\ last_command.operation = "update_document_title"
    /\ \E r \in Replica :
          LET d == last_command.document_id
              u == last_command.username
          IN  /\ d \in DOMAIN db[r].documents
              /\ u \in DOMAIN db[r].users
              /\ ~Contains(db[r].documents[d].users, u)
              /\ db[r].documents[d].title \in Title
              /\ returned[r] = Refusal(
                    "User does not have access to this document.")

\* C23: last_edited is refreshed by every write.  In every step in which a
\* replica applies update_document_title, update_document_content,
\* add_user_to_document or remove_user_from_document to a document it
\* stores and the call returns success, the document's last_edited
\* afterwards is later than it was before.
C23_LastEditedRefreshed ==
    [][\A r \in Replica :
          LET cmd == last_command' IN
          (/\ applied' = applied + 1
           /\ cmd.operation \in
                 {"update_document_title", "update_document_content",
                  "add_user_to_document", "remove_user_from_document"}
           /\ cmd.document_id \in DOMAIN db[r].documents
           /\ returned'[r].success)
              => db'[r].documents[cmd.document_id].last_edited
                    > db[r].documents[cmd.document_id].last_edited]_vars

\* C24: leader_id belongs to the current term.  On every node leader_id
\* is None or names a node that has been leader in the node's
\* current_term.
C24_LeaderOfCurrentTerm ==
    \A s \in Server :
        leader_id[s] # Nil =>
            \E e \in elected :
                e.node = leader_id[s] /\ e.term = current_term[s]

\* In this step the election timer of node s has fired: s, which was not
\* leader, has added 1 to its current_term, has voted for itself, counts
\* one vote, and its log, commit_index and last_applied are as they were;
\* no other node has changed its role.
StartsElection(s) ==
    /\ state[s] # LEADER
    /\ current_term'[s] = current_term[s] + 1
    /\ voted_for'[s] = s
    /\ votes_received'[s] = 1
    /\ log'[s] = log[s]
    /\ commit_index'[s] = commit_index[s]
    /\ last_applied'[s] = last_applied[s]
    /\ \A p \in Server \ {s} :
          /\ state'[p] = state[p]
          /\ current_term'[p] = current_term[p]
          /\ voted_for'[p] = voted_for[p]

\* C25 as stated: in every step in which an election timer fires, the
\* node it fires on was not leader and is candidate afterwards, with the
\* effects of StartsElection.
C25_ElectionStart ==
    [][budget'.elections = budget.elections + 1
          => \E s \in Server : StartsElection(s) /\ state'[s] = CANDIDATE]_vars

\* C25, amended: the same, except that a node with peers all of which are
\* marked down is leader, not candidate, at the end of the step.
C25_ElectionStartOrShortcut ==
    [][budget'.elections = budget.elections + 1
          => \E s \in Server :
                /\ StartsElection(s)
                /\ state'[s] = IF ActivePeers(s) = {} /\ peer_addresses[s] # {}
                                 THEN LEADER ELSE CANDIDATE]_vars

\* A node that had voted for its peer in term 2 is candidate of term 3 and
\* has voted for itself.
C25_Witness ==
    \E s, p \in Server :
        /\ s # p /\ state[s] = CANDIDATE /\ current_term[s] = 3
        /\ voted_for[s] = s /\ votes_received[s] = 1
        /\ current_term[p] = 2 /\ state[p] = LEADER
        /\ [term |-> 2, node |-> p, via |-> "votes"] \in elected

\* In this step the sender thread t of a vote request has taken its
\* response to the second locked block of _request_vote.
Counted(t) ==
    /\ t.type = "vote" /\ t.pc = "replied"
    /\ CopiesIn(t, threads') < CopiesIn(t, threads)
    /\ budget' = budget

\* C26: vote counting.  In every step in which a node takes a vote
\* response: votes_received changes only if the response grants the vote
\* and the node is candidate in the term in which the vote was requested
\* and granted, and then it grows by one; the node becomes leader in the
\* step exactly when the new votes_received exceeds (peer_count + 1) / 2.
C26_VoteCounting ==
    [][\A t \in BagToSet(threads) :
          Counted(t) =>
              LET s == t.src IN
              /\ votes_received'[s] # votes_received[s]
                    => /\ t.ok
                       /\ state[s] = CANDIDATE
                       /\ t.term = current_term[s]
                       /\ votes_received'[s] = votes_received[s] + 1
              /\ (state[s] # LEADER /\ state'[s] = LEADER)
                    <=> /\ votes_received'[s] # votes_received[s]
                        /\ 2 * votes_received'[s]
                              > Cardinality(peer_addresses[s]) + 1]_vars

\* In this step node s has made itself leader of term without counting a
\* vote: it is leader of that term with one vote, its own, and the entry
\* into the leader state is the only one of the step.
LeaderWithoutVote(s, term) ==
    /\ state'[s] = LEADER
    /\ current_term'[s] = term
    /\ leader_id'[s] = s
    /\ votes_received'[s] = 1
    /\ elected' \ elected = {[term |-> term, node |-> s, via |-> "shortcut"]}

\* C27: the all-peers-down shortcut.  In every step in which the election
\* timer of a node with peers fires while every peer is marked down, and in
\* every step in which a vote request of a candidate gives up while every
\* other peer is marked down, the node makes itself leader (of the new
\* term, of its term) without counting a vote.  No node makes itself
\* leader in this way unless it has peers and all of them are marked down,
\* so a node without peers never does.
C27_AllPeersDown ==
    [][/\ \A s \in Server :
             (/\ budget'.elections = budget.elections + 1
              /\ current_term'[s] = current_term[s] + 1
              /\ peer_addresses[s] # {}
              /\ \A p \in peer_addresses[s] : peer_down[s][p])
                 => LeaderWithoutVote(s, current_term[s] + 1)
       /\ \A t \in BagToSet(threads) :
             (/\ budget'.failures = budget.failures + 1
              /\ t.type = "vote"
              /\ BagCardinality(threads') < BagCardinality(threads)
              /\ CopiesIn(t, threads') < CopiesIn(t, threads)
              /\ state[t.src] = CANDIDATE
              /\ \A p \in peer_addresses[t.src] \ {t.dst} : peer_down[t.src][p])
                 => LeaderWithoutVote(t.src, current_term[t.src])
       /\ \A e \in elected' \ elected :
             e.via = "shortcut"
                 => /\ peer_addresses[e.node] # {}
                    /\ \A p \in peer_addresses[e.node] : peer_down'[e.node][p]
      ]_vars

\* A node that was follower of its peer in term 2, with the peer marked
\* down, is leader of term 3 with its own vote only.
C27_Witness ==
    \E s, p \in Server :
        /\ s # p /\ state[s] = LEADER /\ current_term[s] = 3
        /\ votes_received[s] = 1 /\ peer_down[s][p]
        /\ [term |-> 3, node |-> s, via |-> "shortcut"] \in elected
        /\ [term |-> 2, node |-> p, via |-> "votes"] \in elected

\* The indices above the commit_index of leader s whose entry is of the
\* current term and is matched, by mi, on a strict majority that counts s.
Committable(s, mi) ==
    {n \in (commit_index[s] + 1)..(Len(log[s]) - 1) :
        /\ log[s][n + 1].term = current_term[s]
        /\ 2 * (1 + Cardinality({p \in peer_addresses[s] : mi[p] >= n}))
              > Cardinality(peer_addresses[s]) + 1}

\* C28: leader commit advancement.  In every step in which a leader takes
\* a successful heartbeat response and evaluates the commit advancement,
\* commit_index becomes the largest committable index, and stays as it is
\* when there is none.
C28_LargestCommittable ==
    [][\A t \in BagToSet(threads) :
          (/\ t.type = "append" /\ t.pc = "replied" /\ t.ok
           /\ CopiesIn(t, threads') < CopiesIn(t, threads)
           /\ budget' = budget
           /\ state[t.src] = LEADER
           /\ t.term <= current_term[t.src])
              => LET s == t.src
                     ok == Committable(s, match_index'[s])
                 IN  commit_index'[s] =
                        IF ok = {} THEN commit_index[s] ELSE MaxOf(ok)]_vars

\* C29: follower commit rule.  In every step in which a node accepts a
\* heartbeat, the commit_index it is left with is an index of its own log
\* (or -1), and every entry that the step has newly marked as committed
\* is the entry that the sender of the heartbeat holds at the same index.
C29_FollowerCommitsLeaderEntries ==
    [][\A t \in BagToSet(threads) : \A u \in BagToSet(threads') :
          (Handled(t, u) /\ t.type = "append" /\ t.term >= current_term[t.dst])
              => LET s == t.dst IN
                 /\ commit_index'[s] < Len(log[s])
                 /\ \A i \in (commit_index[s] + 1)..commit_index'[s] :
                       /\ i < Len(log[t.src])
                       /\ log[s][i + 1] = log[t.src][i + 1]]_vars

\* C30: a higher term always causes a step-down.  In every step in which
\* a node handles a request of a term above its current_term, and in every
\* step in which a sender thread of a node takes a vote response or a
\* heartbeat response of a term above the node's current_term, the node is
\* follower afterwards and its current_term is the term it has seen.
C30_HigherTermStepDown ==
    [][/\ \A t \in BagToSet(threads) : \A u \in BagToSet(threads') :
             (Handled(t, u) /\ t.term > current_term[t.dst])
                 => /\ state'[t.dst] = FOLLOWER
                    /\ current_term'[t.dst] = t.term
       /\ \A t \in BagToSet(threads) :
             (/\ t.pc = "replied"
              /\ CopiesIn(t, threads') < CopiesIn(t, threads)
              /\ budget' = budget
              /\ t.term > current_term[t.src])
                 => /\ state'[t.src] = FOLLOWER
                    /\ current_term'[t.src] = t.term]_vars

\* C31: appending is leader-only.  In every step that adds an entry to the
\* log of a node, the node is in leader state, and the term of the entry
\* is the node's current_term, a term in which the node has become leader.
C31_LeaderOnlyAppend ==
    [][\A s \in Server :
          Len(log'[s]) > Len(log[s])
              => /\ state[s] = LEADER
                 /\ log'[s][Len(log'[s])].term = current_term[s]
                 /\ \E e \in elected :
                       e.node = s /\ e.term = current_term[s]]_vars

\* C32: the role diagram.  A node enters the leader state only from the
\* candidate state (an election start that ends in the leader state has
\* made the node candidate first, inside the same critical section), and
\* a node leaves the leader state only for the follower state and only
\* with a current_term above the one it had as leader.
C32_RoleDiagram ==
    [][\A s \in Server :
          /\ (state[s] # LEADER /\ state'[s] = LEADER)
                => \/ state[s] = CANDIDATE
                   \/ budget'.elections = budget.elections + 1
          /\ (state[s] = LEADER /\ state'[s] # LEADER)
                => /\ state'[s] = FOLLOWER
                   /\ current_term'[s] > current_term[s]]_vars

\* C33: committed entries are eventually applied.  Under a fair apply
\* loop, whenever a running node has commit_index = n above its
\* last_applied, last_applied reaches n later on (or the node has been
\* stopped); and every step of last_applied is an increment by one.
C33_EventuallyApplied ==
    /\ \A s \in Server : \A n \in 0..(MaxSubmits - 1) :
          (running(s) /\ commit_index[s] = n /\ last_applied[s] < n)
              ~> (last_applied[s] >= n \/ ~running(s))
    /\ [][\A s \in Server :
             last_applied'[s] \in {last_applied[s], last_applied[s] + 1}]_vars

\* A follower has applied both entries of its log, in order, up to its
\* commit_index.
C33_Witness ==
    \E s \in Server :
        /\ state[s] = FOLLOWER /\ running(s)
        /\ commit_index[s] = 1 /\ last_applied[s] = 1
        /\ apply_seq[s] = <<0, 1>>

\* C34: the log is append-only with dense 0-based indices.  In every
\* reachable state the entry at position i of a log has index i, and no
\* step shortens a log or changes an entry that a log holds.
C34_AppendOnlyLog ==
    /\ [](\A s \in Server : \A i \in 0..(Len(log[s]) - 1) :
             log[s][i + 1].index = i)
    /\ [][\A s \in Server :
             /\ Len(log'[s]) >= Len(log[s])
             /\ \A i \in 1..Len(log[s]) : log'[s][i] = log[s][i]]_vars

\* Two nodes hold one entry each; one of them has accepted a heartbeat that
\* carried an entry different from its own and holds its own as before.
C34_Witness ==
    \E s, p \in Server :
        /\ s # p /\ Len(log[s]) = 1 /\ Len(log[p]) = 1
        /\ \E t \in BagToSet(threads) :
              /\ t.type = "append" /\ t.pc = "replied" /\ t.ok
              /\ t.src = p /\ t.dst = s /\ t.entries # <<>>
              /\ t.entries[1] # log[s][1]

\* C35: at most one vote per term.  In no step does a node give its vote,
\* to itself as candidate or to a candidate that asks for it, in the term
\* in which it has given its last vote to another candidate.  (The terms
\* of a node never decrease, so the votes of one term follow each other.)
C35_OneVotePerTerm ==
    [][\A s \in Server :
          granted'[s].term = granted[s].term
              => granted'[s].candidate = granted[s].candidate]_vars

\* C36: state-machine safety.  Two nodes whose apply loops have both
\* applied index i have applied the same command at i.  (A log never
\* changes an entry it holds, so the entry at i is the one applied.)
C36_StateMachineSafety ==
    \A s, p \in Server :
        \A i \in 0..(MaxSubmits - 1) :
            (i <= last_applied[s] /\ i <= last_applied[p])
                => log[s][i + 1].command = log[p][i + 1].command

\* C37: the replication indices of a leader.  In every step over which a
\* node stays leader of the same term, no match_index of a peer decreases;
\* and when the step takes a successful response to a request that
\* carried entries, next_index of the peer is match_index + 1 afterwards.
C37_MatchIndexMonotone ==
    [][\A s \in Server :
          (/\ state[s] = LEADER /\ state'[s] = LEADER
           /\ current_term'[s] = current_term[s])
              => /\ \A p \in peer_addresses[s] :
                       match_index'[s][p] >= match_index[s][p]
                 /\ \A t \in BagToSet(threads) :
                       (/\ t.type = "append" /\ t.pc = "replied" /\ t.ok
                        /\ t.src = s /\ t.entries # <<>>
                        /\ t.term <= current_term[s]
                        /\ CopiesIn(t, threads') < CopiesIn(t, threads)
                        /\ budget' = budget)
                          => next_index'[s][t.dst]
                                = match_index'[s][t.dst] + 1]_vars

\* The peers of node s whose last vote is a vote for s in the current_term
\* of s.
Granters(s) ==
    {p \in peer_addresses[s] : granted[p] = Vote(current_term[s], s)}

\* C38: votes are counted per distinct voter.  A candidate never counts
\* more votes than its own and one for each peer that has given it its
\* vote in the candidate's current term.
C38_DistinctVoters ==
    \A s \in Server :
        state[s] = CANDIDATE
            => votes_received[s] <= 1 + Cardinality(Granters(s))

\* C39: cross-reference integrity under concurrency.  Whenever no method
\* call is under way on the node, every document that lists a user in its
\* users is listed in the documents of that user.
C39_NoLostUpdate ==
    (\A k \in Task : method_call[k].pc = "idle")
        => \A d \in DOMAIN db[Local].documents : \A u \in StoreUser :
              Contains(db[Local].documents[d].users, u)
                  => /\ u \in DOMAIN db[Local].users
                     /\ Contains(db[Local].users[u].documents, d)

\* C40: commit_index never decreases.  No step of any node (a leader's
\* commit advancement, an append, a heartbeat received, a step-down, an
\* election) leaves the node with a smaller commit_index.
C40_CommitIndexMonotone ==
    [][\A s \in Server : commit_index'[s] >= commit_index[s]]_vars

\* A node that was leader of term 1 has stepped down to term 2, has accepted
\* a heartbeat of the leader of term 2 and has a commit_index of 0.
C40_Witness ==
    \E s \in Server :
        /\ state[s] = FOLLOWER /\ current_term[s] = 2
        /\ commit_index[s] = 0
        /\ [term |-> 1, node |-> s, via |-> "votes"] \in elected
        /\ leader_id[s] \notin {Nil, s}

====
